---- MODULE Spec2Model ----
(***************************************************************************)
(* A model of the bms-nlp token classification pipeline:                   *)
(*   src/src/bms/tokenizer.py          tokenize, split_alpha_num           *)
(*   src/src/bms/generate_bms_vocab.py extract_vocab and its helpers       *)
(*   src/src/bms/label_point_tokens.py label_token and the labeler         *)
(*                                                                         *)
(* A Python str is a sequence of one-character strings, so that upper(),   *)
(* the regular expressions and the tokenizer are computed character by     *)
(* character.  The alphabet is a subset of ASCII (letters, digits, the six *)
(* separators, "%", tab and newline).                                      *)
(***************************************************************************)
EXTENDS Integers, Sequences, FiniteSets, TLC

VARIABLES
  pc,                    \* position of the run: "collect", "label" or "done"
  token_order,           \* keys of token_counter in insertion order (a dict keeps it)
  token_counter,         \* token -> freq
  token_buildings,       \* token -> set of building ids
  token_numid_bigram,    \* token -> count of (token, numeric) bigrams
  per_building_counter,  \* building -> (token -> freq)
  num_records,           \* records consumed by the collection loop so far
  candidates,            \* the candidate collections of extract_vocab
  bundle,                \* the document returned by extract_vocab
  vocabs,                \* the dict returned by load_vocabs
  token,                 \* the argument of the last label_token call
  category,              \* the value returned by the last label_token call
  tokens,                \* the tokens given to build_structured
  cats,                  \* the categories given to categories_to_bio and build_structured
  bio,                   \* the list returned by categories_to_bio
  structured,            \* the dict returned by build_structured
  vocab_file,            \* bms_vocabs.json as the labeler finds it
  input,                 \* the lines of all_points.jsonl
  output                 \* the lines written to point_names_labeled.jsonl

collectVars == <<token_order, token_counter, token_buildings, token_numid_bigram,
                 per_building_counter, num_records>>
vocabVars == <<candidates, bundle>>
labelVars == <<vocabs, token, category>>
annotVars == <<tokens, cats, bio, structured, vocab_file, input, output>>

vars == <<pc, collectVars, vocabVars, labelVars, annotVars>>

\* the labeler's batch has not started
AnnotIdle ==
  /\ tokens = <<>>
  /\ cats = <<>>
  /\ bio = <<>>
  /\ structured = "NONE"
  /\ vocab_file = "NONE"
  /\ input = <<>>
  /\ output = <<>>

-----------------------------------------------------------------------------
(* Characters and str methods                                              *)

UpperLetters ==
  <<"A","B","C","D","E","F","G","H","I","J","K","L","M",
    "N","O","P","Q","R","S","T","U","V","W","X","Y","Z">>

LowerLetters ==
  <<"a","b","c","d","e","f","g","h","i","j","k","l","m",
    "n","o","p","q","r","s","t","u","v","w","x","y","z">>

DigitChars == <<"0","1","2","3","4","5","6","7","8","9">>

\* The alphabet in code point order: sorted() compares strings by code point.
CodeOrder ==
  <<"\t", "\n", " ", "%", "-", ".", "/">> \o DigitChars \o <<":">>
    \o UpperLetters \o <<"_">> \o LowerLetters

Range(s) == {s[i] : i \in 1..Len(s)}

Upper_AZ == Range(UpperLetters)
Lower_az == Range(LowerLetters)
Digit_09 == Range(DigitChars)
Alphabet == Range(CodeOrder)

CodeOf == [c \in Alphabet |-> CHOOSE i \in 1..Len(CodeOrder) : CodeOrder[i] = c]

UpperOf ==
  [c \in Alphabet |->
     IF c \in Lower_az
       THEN UpperLetters[CHOOSE i \in 1..Len(LowerLetters) : LowerLetters[i] = c]
       ELSE c]

LowerOf ==
  [c \in Alphabet |->
     IF c \in Upper_AZ
       THEN LowerLetters[CHOOSE i \in 1..Len(UpperLetters) : UpperLetters[i] = c]
       ELSE c]

\* str.upper()
upper(s) == [i \in 1..Len(s) |-> UpperOf[s[i]]]

\* str.isdigit(): non-empty and every character a digit
isdigit(s) == Len(s) > 0 /\ \A i \in 1..Len(s) : s[i] \in Digit_09

\* str.isalpha(): non-empty and every character a letter
isalpha(s) == Len(s) > 0 /\ \A i \in 1..Len(s) : s[i] \in Upper_AZ \cup Lower_az

\* str.isupper(): at least one cased character and no lower-case one
isupper(s) ==
  /\ \E i \in 1..Len(s) : s[i] \in Upper_AZ
  /\ \A i \in 1..Len(s) : s[i] \notin Lower_az

\* str.endswith(suffix)
endswith(s, suffix) ==
  /\ Len(suffix) <= Len(s)
  /\ SubSeq(s, Len(s) - Len(suffix) + 1, Len(s)) = suffix

\* str.startswith(prefix)
startswith(s, prefix) ==
  /\ Len(prefix) <= Len(s)
  /\ SubSeq(s, 1, Len(prefix)) = prefix

\* sub in s (substring containment)
contains(s, sub) ==
  \E i \in 1..(Len(s) - Len(sub) + 1) : SubSeq(s, i, i + Len(sub) - 1) = sub

\* str.strip() is truthy: some character is not whitespace
WhitespaceChars == {" ", "\t", "\n"}
strip_nonempty(s) == \E i \in 1..Len(s) : s[i] \notin WhitespaceChars

\* s < t in Python's string order (lexicographic by code point)
StrLess(s, t) ==
  \E k \in 1..(Len(t)) :
    /\ \A i \in 1..(k - 1) : i <= Len(s) /\ s[i] = t[i]
    /\ \/ Len(s) = k - 1
       \/ (Len(s) >= k /\ CodeOf[s[k]] < CodeOf[t[k]])

\* the function f with its values computed once
Tabulate(f) == f @@ <<>>

\* sorted(S) for a set of strings S: x stands after the strings smaller than it
sorted(S) ==
  LET before == Tabulate([x \in S |-> Cardinality({y \in S : StrLess(y, x)})])
  IN [p \in 1..Cardinality(S) |-> CHOOSE x \in S : before[x] = p - 1]

-----------------------------------------------------------------------------
(* Regular expressions: a pattern is a sequence of items, each a character *)
(* class with a repetition range, anchored at both ends; re.I widens every *)
(* class to both letter cases.                                             *)

\* {lo,hi} repetitions of a class; Many is {lo,} (the quantifiers + and *)
Item(chars, lo, hi) == [chars |-> chars, lo |-> lo, hi |-> hi, open |-> FALSE]
Many(chars, lo) == [chars |-> chars, lo |-> lo, hi |-> lo, open |-> TRUE]
Lit(c) == Item({c}, 1, 1)

\* c is in the class of the item; under re.I a letter matches in either case
InClass(c, item, icase) ==
  \/ c \in item.chars
  \/ (icase /\ (UpperOf[c] \in item.chars \/ LowerOf[c] \in item.chars))

\* the items from index k on match s from position pos to the end of s
RECURSIVE MatchFrom(_, _, _, _, _)
MatchFrom(items, icase, k, s, pos) ==
  IF k > Len(items) THEN pos = Len(s) + 1
  ELSE LET it == items[k]
           left == Len(s) - pos + 1
           most == IF ~it.open /\ it.hi < left THEN it.hi ELSE left
       IN \E n \in it.lo..most :
            /\ \A i \in pos..(pos + n - 1) : InClass(s[i], it, icase)
            /\ MatchFrom(items, icase, k + 1, s, pos + n)

\* p.match(s) for a pattern ^...$ : "$" matches at the end of the string and
\* also just before a newline that ends the string
re_match(p, s) ==
  \/ MatchFrom(p.items, p.icase, 1, s, 1)
  \/ /\ Len(s) > 0
     /\ s[Len(s)] = "\n"
     /\ MatchFrom(p.items, p.icase, 1, SubSeq(s, 1, Len(s) - 1), 1)

-----------------------------------------------------------------------------
(* src/src/bms/tokenizer.py                                                *)

\* the separators without the colon
DELIM_RE_no_colon == {" ", "_", ".", "-", "/"}

\* DELIM_RE = [ _\.\-\/:]+
DELIM_RE == {" ", "_", ".", "-", "/", ":"}

\* a set of positions as an ascending sequence
Ascending(S) ==
  [p \in 1..Cardinality(S) |-> CHOOSE i \in S : Cardinality({j \in S : j < i}) = p - 1]

\* DELIM_RE.split(label): the maximal runs of non-separator characters, and the
\* empty string re.split yields before a leading and after a trailing separator
delim_split(label) ==
  LET n == Len(label)
      sep(i) == label[i] \in DELIM_RE
      starts == Ascending({i \in 1..n : ~sep(i) /\ (i = 1 \/ sep(i - 1))})
      stop(i) == CHOOSE e \in i..n :
                   /\ \A j \in i..e : ~sep(j)
                   /\ (e = n \/ sep(e + 1))
      runs == [p \in 1..Len(starts) |-> SubSeq(label, starts[p], stop(starts[p]))]
  IN IF n = 0 THEN << <<>> >>
     ELSE (IF sep(1) THEN << <<>> >> ELSE <<>>) \o runs
            \o (IF sep(n) THEN << <<>> >> ELSE <<>>)

CharKind(c) ==
  IF c \in Upper_AZ \cup Lower_az THEN "alpha"
  ELSE IF c \in Digit_09 THEN "digit" ELSE "other"

\* every character of t on its own
findall_alpha_num_chars(t) == [p \in 1..Len(t) |-> <<t[p]>>]

\* re.findall(r"[A-Za-z]+|\d+|[^A-Za-z0-9]", t): the maximal runs of letters, the
\* maximal runs of digits and every other character on its own, left to right
findall_alpha_num(t) ==
  LET n == Len(t)
      kind(i) == CharKind(t[i])
      starts == Ascending({i \in 1..n : kind(i) = "other" \/ i = 1 \/ kind(i - 1) # kind(i)})
      stop(i) == IF kind(i) = "other" THEN i
                 ELSE CHOOSE e \in i..n :
                        /\ \A j \in i..e : kind(j) = kind(i)
                        /\ (e = n \/ kind(e + 1) # kind(i))
  IN [p \in 1..Len(starts) |-> SubSeq(t, starts[p], stop(starts[p]))]

\* the parts as they are, whitespace included
SelectStripped_keep_all(parts) == parts

SelectStripped(parts) == SelectSeq(parts, strip_nonempty)

\* the fragment as one token
split_alpha_num_whole(t) == SelectStripped(<<t>>)

split_alpha_num(t) == SelectStripped(findall_alpha_num(t))

RECURSIVE ExtendAll(_, _)
ExtendAll(rough, k) ==
  IF k > Len(rough) THEN <<>>
  ELSE split_alpha_num(rough[k]) \o ExtendAll(rough, k + 1)

tokenize(label) == ExtendAll(SelectStripped(delim_split(label)), 1)

-----------------------------------------------------------------------------
(* src/src/bms/label_point_tokens.py: patterns and label_token             *)

Pattern(items, icase) == [items |-> items, icase |-> icase]

FLOOR_PATTERNS ==
  << Pattern(<<Lit("F"), Item({"L"}, 0, 1), Many(Digit_09, 1)>>, TRUE),
     Pattern(<<Lit("F"), Lit("l"), Lit("o"), Lit("o"), Lit("r")>>, TRUE) >>

ROOM_PATTERNS ==
  << Pattern(<<Lit("R"), Lit("M"), Many(Digit_09, 1), Item(Upper_AZ, 0, 1)>>, TRUE),
     Pattern(<<Item(Digit_09, 3, 4), Item(Upper_AZ, 0, 1)>>, TRUE),
     Pattern(<<Item(Digit_09, 1, 1), Item(Upper_AZ, 1, 3), Item(Digit_09, 1, 3)>>, TRUE) >>

EQUIP_ID_PATTERNS ==
  << Pattern(<<Many(Digit_09, 1)>>, FALSE),
     Pattern(<<Item(Upper_AZ, 0, 1), Item(Digit_09, 2, 3), Item(Upper_AZ, 0, 1)>>, FALSE) >>

BUILDING_HINT_PATTERNS ==
  << Pattern(<<Lit("B"), Lit("L"), Lit("D"), Lit("G"), Many(Digit_09, 1)>>, TRUE) >>

\* any(p.match(token) for p in patterns)
any_match(patterns, tok) == \E i \in 1..Len(patterns) : re_match(patterns[i], tok)

Categories ==
  {"BLDG", "FLOOR", "ZONE", "EQUIP", "EQUIP_ID", "SUBCOMP", "POINT_FUNC",
   "IO_TYPE", "VENDOR_TAG", "MISC"}

\* Variants of label_token with one rule misplaced or missing
label_token_io_first(tok, vs) ==
  LET t == upper(tok) IN
  IF t \in vs.IO_TYPE THEN "IO_TYPE"
  ELSE IF t \in vs.VENDOR_TAG THEN "VENDOR_TAG"
  ELSE IF t \in vs.EQUIP THEN "EQUIP"
  ELSE IF t \in vs.SUBCOMP THEN "SUBCOMP"
  ELSE IF t \in vs.POINT_FUNC THEN "POINT_FUNC"
  ELSE IF any_match(FLOOR_PATTERNS, tok) THEN "FLOOR"
  ELSE IF any_match(ROOM_PATTERNS, tok) THEN "ZONE"
  ELSE IF any_match(EQUIP_ID_PATTERNS, tok) THEN "EQUIP_ID"
  ELSE IF any_match(BUILDING_HINT_PATTERNS, tok) THEN "BLDG"
  ELSE "MISC"

label_token_no_bldg(tok, vs) ==
  LET t == upper(tok) IN
  IF t \in vs.VENDOR_TAG THEN "VENDOR_TAG"
  ELSE IF t \in vs.IO_TYPE THEN "IO_TYPE"
  ELSE IF t \in vs.EQUIP THEN "EQUIP"
  ELSE IF t \in vs.SUBCOMP THEN "SUBCOMP"
  ELSE IF t \in vs.POINT_FUNC THEN "POINT_FUNC"
  ELSE IF any_match(FLOOR_PATTERNS, tok) THEN "FLOOR"
  ELSE IF any_match(ROOM_PATTERNS, tok) THEN "ZONE"
  ELSE IF any_match(EQUIP_ID_PATTERNS, tok) THEN "EQUIP_ID"
  ELSE "MISC"

label_token_id_first(tok, vs) ==
  LET t == upper(tok) IN
  IF t \in vs.VENDOR_TAG THEN "VENDOR_TAG"
  ELSE IF t \in vs.IO_TYPE THEN "IO_TYPE"
  ELSE IF t \in vs.EQUIP THEN "EQUIP"
  ELSE IF t \in vs.SUBCOMP THEN "SUBCOMP"
  ELSE IF t \in vs.POINT_FUNC THEN "POINT_FUNC"
  ELSE IF any_match(FLOOR_PATTERNS, tok) THEN "FLOOR"
  ELSE IF any_match(EQUIP_ID_PATTERNS, tok) THEN "EQUIP_ID"
  ELSE IF any_match(ROOM_PATTERNS, tok) THEN "ZONE"
  ELSE IF any_match(BUILDING_HINT_PATTERNS, tok) THEN "BLDG"
  ELSE "MISC"

\* label_token that looks the token up as it is written
label_token_no_upper(tok, vs) ==
  LET t == tok IN
  IF t \in vs.VENDOR_TAG THEN "VENDOR_TAG"
  ELSE IF t \in vs.IO_TYPE THEN "IO_TYPE"
  ELSE IF t \in vs.EQUIP THEN "EQUIP"
  ELSE IF t \in vs.SUBCOMP THEN "SUBCOMP"
  ELSE IF t \in vs.POINT_FUNC THEN "POINT_FUNC"
  ELSE IF any_match(FLOOR_PATTERNS, tok) THEN "FLOOR"
  ELSE IF any_match(ROOM_PATTERNS, tok) THEN "ZONE"
  ELSE IF any_match(EQUIP_ID_PATTERNS, tok) THEN "EQUIP_ID"
  ELSE IF any_match(BUILDING_HINT_PATTERNS, tok) THEN "BLDG"
  ELSE "MISC"

label_token(tok, vs) ==
  LET t == upper(tok) IN
  IF t \in vs.VENDOR_TAG THEN "VENDOR_TAG"
  ELSE IF t \in vs.IO_TYPE THEN "IO_TYPE"
  ELSE IF t \in vs.EQUIP THEN "EQUIP"
  ELSE IF t \in vs.SUBCOMP THEN "SUBCOMP"
  ELSE IF t \in vs.POINT_FUNC THEN "POINT_FUNC"
  ELSE IF any_match(FLOOR_PATTERNS, tok) THEN "FLOOR"
  ELSE IF any_match(ROOM_PATTERNS, tok) THEN "ZONE"
  ELSE IF any_match(EQUIP_ID_PATTERNS, tok) THEN "EQUIP_ID"
  ELSE IF any_match(BUILDING_HINT_PATTERNS, tok) THEN "BLDG"
  ELSE "MISC"

-----------------------------------------------------------------------------
(* src/src/bms/generate_bms_vocab.py: thresholds, seeds and heuristics     *)

MIN_GLOBAL_FREQ == 10
MIN_BUILDINGS == 2
MIN_EQUIP_NUMID_BIGRAM == 5
MAX_EQUIP == 150
MIN_SUBCOMP_SCORE == 15
MIN_POINTFUNC_SCORE == 5

SEED_EQUIP ==
  {
    <<"A","H","U">>, <<"C","H","W">>, <<"C","R","A","C">>, <<"E","F">>, <<"F","A","N">>,
    <<"F","A","N","C","O","I","L">>, <<"F","C","U">>, <<"H","H","W">>, <<"H","W","P">>,
    <<"H","X">>, <<"M","A","U">>, <<"P","U","M","P">>, <<"S","F">>, <<"V","A","V">>
  }

SEED_SUBCOMP ==
  {
    <<"D","A","T">>, <<"F","L","O","W">>, <<"M","A","T">>, <<"O","A","T">>, <<"P","O","S">>,
    <<"P","R","E","S","S">>, <<"P","R","E","S","S","U","R","E">>, <<"R","A","T">>,
    <<"S","A","T">>, <<"S","P","E","E","D">>, <<"S","T","A","T","I","C">>,
    <<"T","E","M","P">>
  }

SEED_POINT_FUNC ==
  {
    <<"A","L","A","R","M">>, <<"A","L","M">>, <<"C","M","D">>, <<"C","O","M","D">>,
    <<"D","A","Y">>, <<"E","N","A","B","L","E">>, <<"M","O","D","E">>,
    <<"N","I","G","H","T">>, <<"P","R","O","O","F">>, <<"R","U","N">>,
    <<"S","T","A","R","T">>, <<"S","T","A","T","U","S">>, <<"S","T","O","P">>
  }

KNOWN_IO ==
  {
    <<"A","I">>, <<"A","O">>, <<"A","V">>, <<"B","V">>, <<"D","I">>, <<"D","O">>,
    <<"U","I">>, <<"U","O">>
  }

KNOWN_VENDOR_HINTS ==
  {
    <<"B","A","C">>, <<"B","A","C","N","E","T">>, <<"H","O","N","E","Y","W","E","L","L">>,
    <<"J","C","I">>, <<"N","2">>, <<"S","C","H","N","E","I","D","E","R">>,
    <<"S","I","E","M","E","N","S">>, <<"T","R","A","N","E">>
  }

EQUIP_STOPWORDS ==
  {
    <<"A","I","R">>, <<"A","L","A","R","M">>, <<"A","L","M">>, <<"C","O","L","D">>,
    <<"C","O","O","L">>, <<"D","A","Y">>, <<"F","I","L","T","E","R">>, <<"F","L","O","W">>,
    <<"H","E","A","T">>, <<"H","O","T">>, <<"M","O","D","E">>, <<"N","I","G","H","T">>,
    <<"R","E","T">>, <<"R","E","T","U","R","N">>, <<"R","U","N">>, <<"S","T","A","R","T">>,
    <<"S","T","O","P">>, <<"S","U","P">>, <<"S","U","P","P","L","Y">>, <<"T","E","M","P">>,
    <<"Z","O","N","E">>
  }

measurement_keywords ==
  <<
    <<"T","E","M","P">>, <<"F","L","O","W">>, <<"P","R","E","S","S">>, <<"H","U","M">>,
    <<"S","P","E","E","D">>, <<"P","O","S">>, <<"L","E","V","E","L">>,
    <<"S","T","A","T","I","C">>
  >>

fn_keywords ==
  <<
    <<"C","M","D">>, <<"C","O","M","D">>, <<"S","T","A","T">>, <<"S","T","A","T","U","S">>,
    <<"S","T","A","R","T">>, <<"S","T","O","P">>, <<"E","N","A","B","L","E">>,
    <<"E","N","B","L">>, <<"A","L","A","R","M">>, <<"A","L","M">>, <<"M","O","D","E">>,
    <<"P","R","O","O","F">>, <<"R","U","N">>
  >>


EQUIP_BLACKLIST == {}

\* Counter[tok] and Counter.get(tok, 0): a missing key counts 0
CountOf(counter, tok) == IF tok \in DOMAIN counter THEN counter[tok] ELSE 0

\* len(token_buildings.get(tok, set()))
SupportOf(buildings, tok) ==
  IF tok \in DOMAIN buildings THEN Cardinality(buildings[tok]) ELSE 0

score_equip(stats) == stats.freq + 2 * stats.buildings + 3 * stats.numid_bigrams

\* the subcomponent score without the weight of the building support
score_subcomp_unweighted(stats) == stats.freq + stats.buildings

score_subcomp(stats) == stats.freq + 2 * stats.buildings

score_pointfunc(stats) == stats.freq + stats.buildings

is_io_type(tok) == tok \in KNOWN_IO

NET == <<"N","E","T">>

is_vendor(tok) ==
  IF tok \in KNOWN_VENDOR_HINTS THEN TRUE
  ELSE IF endswith(tok, NET) /\ Len(tok) <= 8 THEN TRUE
  ELSE FALSE

\* thresholds that every token passes
passes_global_thresholds_always(tok, counter, buildings) == TRUE

passes_global_thresholds(tok, counter, buildings) ==
  LET freq == CountOf(counter, tok)
      building_support == SupportOf(buildings, tok)
  IN (freq >= MIN_GLOBAL_FREQ) /\ (building_support >= MIN_BUILDINGS)

\* likely_equip that accepts a token of the right shape only with the evidence of
\* numeric successions
likely_equip_needs_succession(t, counter, buildings, numid) ==
  IF t \in EQUIP_BLACKLIST THEN FALSE
  ELSE IF t \in SEED_EQUIP /\ CountOf(counter, t) > 0 THEN TRUE
  ELSE IF ~passes_global_thresholds(t, counter, buildings) THEN FALSE
  ELSE IF ~isalpha(t) THEN FALSE
  ELSE IF ~isupper(t) THEN FALSE
  ELSE IF ~(2 <= Len(t) /\ Len(t) <= 6) THEN FALSE
  ELSE IF t \in EQUIP_STOPWORDS THEN FALSE
  ELSE IF CountOf(numid, t) >= MIN_EQUIP_NUMID_BIGRAM THEN TRUE
  ELSE FALSE

likely_equip(t, counter, buildings, numid) ==
  IF t \in EQUIP_BLACKLIST THEN FALSE
  ELSE IF t \in SEED_EQUIP /\ CountOf(counter, t) > 0 THEN TRUE
  ELSE IF ~passes_global_thresholds(t, counter, buildings) THEN FALSE
  ELSE IF ~isalpha(t) THEN FALSE
  ELSE IF ~isupper(t) THEN FALSE
  ELSE IF ~(2 <= Len(t) /\ Len(t) <= 6) THEN FALSE
  ELSE IF t \in EQUIP_STOPWORDS THEN FALSE
  ELSE IF CountOf(numid, t) >= MIN_EQUIP_NUMID_BIGRAM THEN TRUE
  ELSE TRUE

T_suffix == <<"T">>

\* likely_subcomponent without the seed shortcut
likely_subcomponent_no_seed(t, counter, buildings) ==
  IF ~passes_global_thresholds(t, counter, buildings) THEN FALSE
  ELSE IF \E i \in 1..Len(measurement_keywords) : contains(t, measurement_keywords[i]) THEN TRUE
  ELSE IF isupper(t) /\ Len(t) <= 4 /\ endswith(t, T_suffix) THEN TRUE
  ELSE FALSE

likely_subcomponent(t, counter, buildings) ==
  IF t \in SEED_SUBCOMP /\ CountOf(counter, t) > 0 THEN TRUE
  ELSE IF ~passes_global_thresholds(t, counter, buildings) THEN FALSE
  ELSE IF \E i \in 1..Len(measurement_keywords) : contains(t, measurement_keywords[i]) THEN TRUE
  ELSE IF isupper(t) /\ Len(t) <= 4 /\ endswith(t, T_suffix) THEN TRUE
  ELSE FALSE

DAY_NIGHT == {<<"D","A","Y">>, <<"N","I","G","H","T">>}

likely_point_func(t, counter, buildings) ==
  IF t \in SEED_POINT_FUNC /\ CountOf(counter, t) > 0 THEN TRUE
  ELSE IF ~passes_global_thresholds(t, counter, buildings) THEN FALSE
  ELSE IF \E i \in 1..Len(fn_keywords) : (t = fn_keywords[i] \/ startswith(t, fn_keywords[i])) THEN TRUE
  ELSE IF t \in DAY_NIGHT THEN TRUE
  ELSE FALSE

-----------------------------------------------------------------------------
(* extract_vocab, part 2: candidates, scoring and trimming (lines 368-453) *)

\* the if-chain with the SUBCOMP test ahead of the POINT_FUNC test
bucket_of_subcomp_first(t, counter, buildings, numid) ==
  IF is_io_type(t) THEN "IO_TYPE"
  ELSE IF is_vendor(t) THEN "VENDOR_TAG"
  ELSE IF likely_subcomponent(t, counter, buildings) THEN "SUBCOMP"
  ELSE IF likely_point_func(t, counter, buildings) THEN "POINT_FUNC"
  ELSE IF likely_equip(t, counter, buildings, numid) THEN "EQUIP"
  ELSE "NONE"

\* the branch of the if-chain of the candidate loop that takes the token
bucket_of(t, counter, buildings, numid) ==
  IF is_io_type(t) THEN "IO_TYPE"
  ELSE IF is_vendor(t) THEN "VENDOR_TAG"
  ELSE IF likely_point_func(t, counter, buildings) THEN "POINT_FUNC"
  ELSE IF likely_subcomponent(t, counter, buildings) THEN "SUBCOMP"
  ELSE IF likely_equip(t, counter, buildings, numid) THEN "EQUIP"
  ELSE "NONE"

\* the loop without its "continue" statements: every test is tried on every token
KeysInBucket_no_continue(order, b, counter, buildings, numid) ==
  SelectSeq(order, LAMBDA t :
    CASE b = "IO_TYPE" -> is_io_type(t)
      [] b = "VENDOR_TAG" -> is_vendor(t)
      [] b = "POINT_FUNC" -> likely_point_func(t, counter, buildings)
      [] b = "SUBCOMP" -> likely_subcomponent(t, counter, buildings)
      [] OTHER -> likely_equip(t, counter, buildings, numid))

\* the keys of a dict that the loop put there, in the order it put them
KeysInBucket(order, b, counter, buildings, numid) ==
  SelectSeq(order, LAMBDA t : bucket_of(t, counter, buildings, numid) = b)

\* the candidate collections after the loop over token_counter.items();
\* a dict is the sequence of its (key, stats) items in insertion order
collect_candidates(order, counter, buildings, numid) ==
  LET keys(b) == KeysInBucket(order, b, counter, buildings, numid)
      eq == keys("EQUIP")
      sc == keys("SUBCOMP")
      pf == keys("POINT_FUNC")
  IN [equip |-> [i \in 1..Len(eq) |->
                   [tok |-> eq[i],
                    freq |-> counter[eq[i]],
                    buildings |-> SupportOf(buildings, eq[i]),
                    numid_bigrams |-> CountOf(numid, eq[i])]],
      subcomp |-> [i \in 1..Len(sc) |->
                   [tok |-> sc[i], freq |-> counter[sc[i]],
                    buildings |-> SupportOf(buildings, sc[i])]],
      pointfunc |-> [i \in 1..Len(pf) |->
                   [tok |-> pf[i], freq |-> counter[pf[i]],
                    buildings |-> SupportOf(buildings, pf[i])]],
      io_vocab |-> Range(keys("IO_TYPE")),
      vendor_vocab |-> Range(keys("VENDOR_TAG"))]

\* a sort by score that puts items of equal score in the reverse of their order
sorted_by_score_ties_reversed(items) ==
  LET n == Len(items)
      sc == Tabulate([i \in 1..n |-> score_equip(items[i])])
      pos == Tabulate([i \in 1..n |->
                         1 + Cardinality({j \in 1..n : sc[j] > sc[i]})
                           + Cardinality({j \in (i + 1)..n : sc[j] = sc[i]})])
  IN [p \in 1..n |-> items[CHOOSE i \in 1..n : pos[i] = p]]

\* sorted(items, key=score_equip, reverse=True): a stable sort, so items of
\* equal score keep their order in items
sorted_by_score(items) ==
  LET n == Len(items)
      sc == Tabulate([i \in 1..n |-> score_equip(items[i])])
      pos == Tabulate([i \in 1..n |->
                         1 + Cardinality({j \in 1..n : sc[j] > sc[i]})
                           + Cardinality({j \in 1..(i - 1) : sc[j] = sc[i]})])
  IN [p \in 1..n |-> items[CHOOSE i \in 1..n : pos[i] = p]]

\* seq[:k]
Take(seq, k) == SubSeq(seq, 1, IF Len(seq) < k THEN Len(seq) ELSE k)

Toks(items) == {items[i].tok : i \in 1..Len(items)}

\* no cap on the number of equipment tokens
trim_equip_uncapped(items) == Toks(sorted_by_score(items))

\* the first MAX_EQUIP candidates as they come, without sorting by score
trim_equip_unsorted(items) == Toks(Take(items, MAX_EQUIP))

trim_equip(items) == Toks(Take(sorted_by_score(items), MAX_EQUIP))

\* trimming with a strict comparison
trim_subcomp_strict(items) ==
  {items[i].tok : i \in {j \in 1..Len(items) : score_subcomp(items[j]) > MIN_SUBCOMP_SCORE}}

trim_subcomp(items) ==
  {items[i].tok : i \in {j \in 1..Len(items) : score_subcomp(items[j]) >= MIN_SUBCOMP_SCORE}}

trim_pointfunc(items) ==
  {items[i].tok : i \in {j \in 1..Len(items) : score_pointfunc(items[j]) >= MIN_POINTFUNC_SCORE}}

\* the document extract_vocab returns
build_vocabs(cands, counter, perbldg) ==
  [frequency |-> counter,
   equip_vocab |-> sorted(trim_equip(cands.equip)),
   subcomp_vocab |-> sorted(trim_subcomp(cands.subcomp)),
   point_func_vocab |-> sorted(trim_pointfunc(cands.pointfunc)),
   io_type_vocab |-> sorted(cands.io_vocab),
   vendor_vocab |-> sorted(cands.vendor_vocab),
   stats |-> [num_tokens |-> Cardinality(DOMAIN counter),
              num_buildings |-> Cardinality(DOMAIN perbldg)]]

-----------------------------------------------------------------------------
(* extract_vocab, part 1: the statistics loop (lines 339-366)              *)

Occurrences(seq, x) == Cardinality({i \in 1..Len(seq) : seq[i] = x})

\* a token counted once per record, however often it occurs in it
CounterUpdate_once_per_record(counter, seq) ==
  [t \in DOMAIN counter \cup Range(seq) |->
     CountOf(counter, t) + (IF t \in Range(seq) THEN 1 ELSE 0)]

\* Counter.update(seq)
CounterUpdate(counter, seq) ==
  [t \in DOMAIN counter \cup Range(seq) |-> CountOf(counter, t) + Occurrences(seq, t)]

\* the keys Counter.update(seq) adds, in the order it adds them
RECURSIVE NewKeys(_, _, _)
NewKeys(seq, k, known) ==
  IF k > Len(seq) THEN <<>>
  ELSE IF seq[k] \in known THEN NewKeys(seq, k + 1, known)
  ELSE <<seq[k]>> \o NewKeys(seq, k + 1, known \cup {seq[k]})

UpperAll(toks) == [i \in 1..Len(toks) |-> upper(toks[i])]

\* the building set replaced by the building of the record instead of extended
BuildingsUpdate_replace(buildings, toks_upper, bldg) ==
  [t \in DOMAIN buildings \cup Range(toks_upper) |->
     IF t \in Range(toks_upper) THEN {bldg} ELSE buildings[t]]

\* for t in set(toks_upper): token_buildings[t].add(bldg)
BuildingsUpdate(buildings, toks_upper, bldg) ==
  [t \in DOMAIN buildings \cup Range(toks_upper) |->
     IF t \in Range(toks_upper)
       THEN (IF t \in DOMAIN buildings THEN buildings[t] ELSE {}) \cup {bldg}
       ELSE buildings[t]]

\* the bigram loop: toks[i].upper() is counted when toks[i + 1].isdigit()
BigramFirsts(toks) ==
  LET idx == {i \in 1..(Len(toks) - 1) : isdigit(toks[i + 1])}
  IN [i \in idx |-> upper(toks[i])]

BigramUpdate(numid, toks) ==
  LET firsts == BigramFirsts(toks)
      hits(t) == Cardinality({i \in DOMAIN firsts : firsts[i] = t})
  IN [t \in DOMAIN numid \cup {firsts[i] : i \in DOMAIN firsts} |-> CountOf(numid, t) + hits(t)]

\* per_building_counter[bldg].update(toks_upper)
PerBuildingUpdate(perbldg, toks_upper, bldg) ==
  [b \in DOMAIN perbldg \cup {bldg} |->
     IF b = bldg
       THEN CounterUpdate(IF b \in DOMAIN perbldg THEN perbldg[b] ELSE <<>>, toks_upper)
       ELSE perbldg[b]]

\* obj.get("building_id", "unknown")
building_of(obj) == IF obj.building_id = "ABSENT" THEN "unknown" ELSE obj.building_id

-----------------------------------------------------------------------------
(* The labeler on its own: any loaded vocabulary dict, any token           *)

\* load_vocabs turns the five lists of the document into five sets
\* data.get(key, [])
GetList(data, key) == IF key \in DOMAIN data THEN data[key] ELSE <<>>

load_vocabs(data) ==
  [EQUIP |-> Range(GetList(data, "equip_vocab")),
   SUBCOMP |-> Range(GetList(data, "subcomp_vocab")),
   POINT_FUNC |-> Range(GetList(data, "point_func_vocab")),
   IO_TYPE |-> Range(GetList(data, "io_type_vocab")),
   VENDOR_TAG |-> Range(GetList(data, "vendor_vocab"))]

VocabNames == {"EQUIP", "SUBCOMP", "POINT_FUNC", "IO_TYPE", "VENDOR_TAG"}

\* Two groups of vocabulary words; some of them also match a pattern rule.
WordsA == {<<"A","H","U">>, <<"F","L","O","O","R">>, <<"1","2","2">>}
WordsB == {<<"1","2">>, <<"B","L","D","G","1">>, <<"R","M","1","2">>}

\* The documents load_vocabs is given: each vocabulary holds group A, group B,
\* both or neither, so a word can sit in any combination of vocabularies.
VocabDocument(inA, inB) ==
  LET words(n) == sorted((IF n \in inA THEN WordsA ELSE {}) \cup (IF n \in inB THEN WordsB ELSE {}))
  IN [equip_vocab |-> words("EQUIP"),
      subcomp_vocab |-> words("SUBCOMP"),
      point_func_vocab |-> words("POINT_FUNC"),
      io_type_vocab |-> words("IO_TYPE"),
      vendor_vocab |-> words("VENDOR_TAG")]

\* Tokens in their original case: words, pattern shapes and near misses
SampleTokens ==
  {
    <<"A","H","U">>, <<"a","h","u">>, <<"A","h","u">>, <<"F","l","o","o","r">>,
    <<"f","l","o","o","r">>, <<"F","L","O","O","R">>, <<"F","3">>, <<"F","L","0","3">>,
    <<"f","l","1","2">>, <<"F","L","X">>, <<"F">>, <<"R","M","1","2","0","3","E">>,
    <<"r","m","1","2">>, <<"R","M","1","2">>, <<"R","M">>, <<"2","1","3","0">>,
    <<"7","0","1","9","E">>, <<"7","0","1","9","e">>, <<"1","2","E">>,
    <<"2","S","E","2","1">>, <<"2","s","e","2","1">>, <<"2","S","E","A","T","2","1">>,
    <<"A","1","0">>, <<"a","1","0">>, <<"A","1","2","3","4">>, <<"1","0","B">>, <<"1","B">>,
    <<"B","L","D","G","1">>, <<"B","l","d","g","1">>, <<"B","L","D","G">>,
    <<"B","L","D","G","1","A">>, <<"X","Y","Z">>, <<"S","A","T">>, <<"%">>, <<>>,
    <<"1","2","2","\n">>, <<"1","2","\n">>, <<"F","l","o","o","r","\n">>
  }

\* Longest all-digit token given to label_token
MaxDigits == 5

SampleDigits == {"1", "2"}

RECURSIVE DigitStrings(_)
DigitStrings(n) ==
  IF n = 0 THEN {<<>>}
  ELSE LET shorter == DigitStrings(n - 1)
       IN shorter \cup {Append(s, d) : s \in {x \in shorter : Len(x) = n - 1}, d \in SampleDigits}

TokenInputs == SampleTokens \cup DigitStrings(MaxDigits)

NoStats == <<>>

InitLabel ==
  /\ pc = "label"
  /\ token_order = <<>>
  /\ token_counter = NoStats
  /\ token_buildings = NoStats
  /\ token_numid_bigram = NoStats
  /\ per_building_counter = NoStats
  /\ num_records = 0
  /\ candidates = "NONE"
  /\ bundle = "NONE"
  /\ \E inA \in SUBSET VocabNames, inB \in SUBSET VocabNames :
       vocabs = load_vocabs(VocabDocument(inA, inB))
  /\ token = <<>>
  /\ category = "NONE"
  /\ AnnotIdle

\* one call label_token(token, vocabs)
LabelToken ==
  /\ pc = "label"
  /\ \E t \in TokenInputs :
       /\ token' = t
       /\ category' = label_token(t, vocabs)
  /\ pc' = "done"
  /\ UNCHANGED <<collectVars, vocabVars, vocabs, annotVars>>

NextLabel == LabelToken

SpecLabel == InitLabel /\ [][NextLabel]_vars

-----------------------------------------------------------------------------
(* extract_vocab on a corpus read record by record                         *)

\* Most records in a corpus, and the number of building ids in use
MaxRecords == 3
NumBuildings == 2

\* "ABSENT" is a record without the building_id field
BuildingIdInputs == <<"B1", "ABSENT", "B2", "B3">>

\* "SIEMENS_AHU-01.SAT_AI_CMD"
L_TEST == <<"S","I","E","M","E","N","S","_","A","H","U","-","0","1",".","S","A","T","_","A","I","_","C","M","D">>
\* "ZONE.AHU01.RM3218:VLV1 Comd/Static.MyNet-DPT Stat"
L_SITE ==
  <<"Z","O","N","E",".","A","H","U","0","1",".","R","M","3","2","1","8",":","V","L","V",
    "1"," ","C","o","m","d","/","S","t","a","t","i","c",".","M","y","N","e","t","-","D",
    "P","T"," ","S","t","a","t">>
\* "_-."
L_SEPS == <<"_","-",".">>

BaseLabels == {L_TEST, L_SITE}

\* a label made of k copies of a base label joined by "_"
RECURSIVE Repeat(_, _)
Repeat(base, k) == IF k <= 1 THEN base ELSE base \o <<"_">> \o Repeat(base, k - 1)

RepeatChoices == {1, 5, 6}

LabelInputs == {Repeat(b, k) : b \in BaseLabels, k \in RepeatChoices} \cup {L_SEPS}

\* tokenize(lbl) for every label of the corpus inputs, computed once
TokenizedInputs == [lbl \in LabelInputs |-> tokenize(lbl)]

RecordInputs ==
  [point_label : LabelInputs,
   building_id : {BuildingIdInputs[i] : i \in 1..NumBuildings}]

InitVocab ==
  /\ pc = "collect"
  /\ token_order = <<>>
  /\ token_counter = NoStats
  /\ token_buildings = NoStats
  /\ token_numid_bigram = NoStats
  /\ per_building_counter = NoStats
  /\ num_records = 0
  /\ candidates = "NONE"
  /\ bundle = "NONE"
  /\ vocabs = "NONE"
  /\ token = <<>>
  /\ category = "NONE"
  /\ AnnotIdle

\* the body of the loop once the label is tokenized: nothing for a label without
\* tokens, else the four updates
\* the loop body without "if not toks: continue"
UpdateStatistics_no_skip(toks, bldg) ==
  LET toks_upper == UpperAll(toks)
  IN /\ token_counter' = CounterUpdate(token_counter, toks_upper)
     /\ token_order' = token_order \o NewKeys(toks_upper, 1, DOMAIN token_counter)
     /\ per_building_counter' = PerBuildingUpdate(per_building_counter, toks_upper, bldg)
     /\ token_buildings' = BuildingsUpdate(token_buildings, toks_upper, bldg)
     /\ token_numid_bigram' = BigramUpdate(token_numid_bigram, toks)

UpdateStatistics(toks, bldg) ==
  LET toks_upper == UpperAll(toks)
  IN IF toks = <<>>
       THEN UNCHANGED <<token_order, token_counter, token_buildings,
                        token_numid_bigram, per_building_counter>>
       ELSE /\ token_counter' = CounterUpdate(token_counter, toks_upper)
            /\ token_order' = token_order \o NewKeys(toks_upper, 1, DOMAIN token_counter)
            /\ per_building_counter' = PerBuildingUpdate(per_building_counter, toks_upper, bldg)
            /\ token_buildings' = BuildingsUpdate(token_buildings, toks_upper, bldg)
            /\ token_numid_bigram' = BigramUpdate(token_numid_bigram, toks)

\* one iteration of the loop over the lines of the corpus
ReadRecord ==
  /\ pc = "collect"
  /\ num_records < MaxRecords
  /\ \E obj \in RecordInputs :
       UpdateStatistics(TokenizedInputs[obj.point_label], building_of(obj))
  /\ num_records' = num_records + 1
  /\ UNCHANGED <<pc, vocabVars, labelVars, annotVars>>

\* the end of the corpus: candidates, trimming and the returned document
Classify ==
  /\ pc = "collect"
  /\ LET cands == collect_candidates(token_order, token_counter, token_buildings,
                                     token_numid_bigram)
     IN /\ candidates' = cands
        /\ bundle' = build_vocabs(cands, token_counter, per_building_counter)
  /\ pc' = "done"
  /\ UNCHANGED <<collectVars, labelVars, annotVars>>

NextVocab == ReadRecord \/ Classify

SpecVocab == InitVocab /\ [][NextVocab]_vars

-----------------------------------------------------------------------------
(* Claims about label_token, checked under SpecLabel                       *)

Labelled == pc = "done" /\ category # "NONE"

CascadeOrder ==
  <<"VENDOR_TAG", "IO_TYPE", "EQUIP", "SUBCOMP", "POINT_FUNC",
    "FLOOR", "ZONE", "EQUIP_ID", "BLDG", "MISC">>

VocabCascade == <<"VENDOR_TAG", "IO_TYPE", "EQUIP", "SUBCOMP", "POINT_FUNC">>

InVocab(n, tok) == upper(tok) \in vocabs[n]

InSomeVocab(tok) == \E n \in VocabNames : InVocab(n, tok)

MatchesSomePattern(tok) ==
  \/ any_match(FLOOR_PATTERNS, tok)
  \/ any_match(ROOM_PATTERNS, tok)
  \/ any_match(EQUIP_ID_PATTERNS, tok)
  \/ any_match(BUILDING_HINT_PATTERNS, tok)

\* rule r of the cascade matches the token
RuleHolds(r, tok) ==
  CASE r \in 1..5 -> InVocab(VocabCascade[r], tok)
    [] r = 6 -> any_match(FLOOR_PATTERNS, tok)
    [] r = 7 -> any_match(ROOM_PATTERNS, tok)
    [] r = 8 -> any_match(EQUIP_ID_PATTERNS, tok)
    [] r = 9 -> any_match(BUILDING_HINT_PATTERNS, tok)
    [] OTHER -> TRUE

\* C1: label_token returns the category of the first rule that matches, in the
\* order VENDOR_TAG, IO_TYPE, EQUIP, SUBCOMP, POINT_FUNC vocabulary (on the
\* upper-cased token), FLOOR, ZONE, EQUIP_ID, BLDG pattern, else MISC; a token in
\* several vocabularies gets the earliest, and a vocabulary beats every pattern.
C1_FirstMatchWins ==
  Labelled =>
    /\ \E r \in 1..Len(CascadeOrder) :
         /\ category = CascadeOrder[r]
         /\ RuleHolds(r, token)
         /\ \A q \in 1..(r - 1) : ~RuleHolds(q, token)
    /\ \A i \in 1..Len(VocabCascade) :
         (InVocab(VocabCascade[i], token) /\ \A j \in 1..(i - 1) : ~InVocab(VocabCascade[j], token))
           => category = VocabCascade[i]
    /\ InSomeVocab(token) => category \in VocabNames

\* a token in two later vocabularies that also matches the FLOOR pattern
C1_Witness ==
  /\ Labelled
  /\ category = "IO_TYPE"
  /\ InVocab("IO_TYPE", token) /\ InVocab("POINT_FUNC", token) /\ ~InVocab("VENDOR_TAG", token)
  /\ any_match(FLOOR_PATTERNS, token)
  /\ token # upper(token)

\* C2: label_token is total: its value is one of the ten categories, and it is
\* MISC exactly when the token is in no vocabulary and matches no pattern.
C2_Totality ==
  Labelled =>
    /\ category \in Categories
    /\ (category = "MISC") <=> (~InSomeVocab(token) /\ ~MatchesSomePattern(token))

\* a near miss of the patterns degrades to MISC under a non-empty bundle
C2_Witness ==
  /\ Labelled
  /\ category = "MISC"
  /\ Len(token) > 1
  /\ \E i \in 1..Len(token) : token[i] \in Digit_09
  /\ vocabs.EQUIP # {} /\ vocabs.VENDOR_TAG # {}

\* C3: an all-digit token in no vocabulary is ZONE when it has 3 or 4 digits and
\* EQUIP_ID when it has 1-2 or 5 and more digits.
C3_ZoneBeforeEquipId ==
  (Labelled /\ isdigit(token) /\ ~InSomeVocab(token)) =>
    IF Len(token) \in 3..4 THEN category = "ZONE" ELSE category = "EQUIP_ID"

\* a four-digit token matches both the ZONE and the EQUIP_ID pattern and is ZONE
C3_Witness ==
  /\ Labelled
  /\ isdigit(token) /\ Len(token) = 4 /\ ~InSomeVocab(token)
  /\ any_match(EQUIP_ID_PATTERNS, token)
  /\ category = "ZONE"

\* all-digit tokens of both EQUIP_ID lengths are labelled
C3_LongDigits == Labelled /\ isdigit(token) /\ Len(token) >= 5 /\ category = "EQUIP_ID"

-----------------------------------------------------------------------------
(* extract_vocab on a corpus with about MAX_EQUIP equipment candidates     *)
(*                                                                         *)
(* The corpus has one token per record.  Filler token number i is the      *)
(* label of Filled(i) records and the seed AHU of `probe' records; the     *)
(* first HalfFreq records of a token come from building B1 and the others  *)
(* from B2.  The records are read token by token, in the order `keys'.     *)

MaxOver == 2

SEED_AHU == <<"A","H","U">>

HalfFreq == MIN_GLOBAL_FREQ \div MIN_BUILDINGS

FillerLetters == <<"A", "B", "C", "D", "E", "F", "G", "H", "I", "J", "K", "L", "M">>

Filler(i) ==
  <<"Q", FillerLetters[((i - 1) \div Len(FillerLetters)) + 1],
         FillerLetters[((i - 1) % Len(FillerLetters)) + 1]>>

FillerCounts == (MAX_EQUIP - MaxOver)..(MAX_EQUIP + MaxOver)

Profiles == {"uniform", "pairs", "distinct"}

Filled(profile, i) ==
  CASE profile = "uniform" -> MIN_GLOBAL_FREQ
    [] profile = "pairs" -> MIN_GLOBAL_FREQ + (i \div 2)
    [] OTHER -> MIN_GLOBAL_FREQ + i

ProbeFreqs == {0, 1, 2 * HalfFreq + 2}

Reverse(seq) == [i \in 1..Len(seq) |-> seq[Len(seq) + 1 - i]]

\* the statistics the loop over the records leaves behind
\* (in the profile "distinct" the first filler was followed by a number
\* HalfFreq times)
TrimStats(n, profile, probe, reversed) ==
  LET fillers == [i \in 1..n |-> Filler(i)]
      keys == IF probe > 0 THEN fillers \o <<SEED_AHU>> ELSE fillers
      counter == [t \in Range(keys) |->
                    IF t = SEED_AHU THEN probe
                    ELSE Filled(profile, CHOOSE i \in 1..n : Filler(i) = t)]
      total == IF profile = "uniform" THEN n * MIN_GLOBAL_FREQ + probe
               ELSE IF profile = "distinct"
                 THEN n * MIN_GLOBAL_FREQ + (n * (n + 1)) \div 2 + probe
               ELSE n * MIN_GLOBAL_FREQ + ((n + 1) \div 2) * (n \div 2) + probe
  IN [order |-> IF reversed THEN Reverse(keys) ELSE keys,
      counter |-> counter,
      buildings |-> [t \in Range(keys) |->
                       IF counter[t] > HalfFreq THEN {"B1", "B2"} ELSE {"B1"}],
      perbldg |-> [b \in {"B1", "B2"} |->
                     IF b = "B1"
                       THEN [t \in Range(keys) |->
                               IF counter[t] > HalfFreq THEN HalfFreq ELSE counter[t]]
                       ELSE [t \in {x \in Range(keys) : counter[x] > HalfFreq} |->
                               counter[t] - HalfFreq]],
      numid |-> IF profile = "distinct" /\ n > 0
                  THEN (Filler(1) :> HalfFreq) ELSE NoStats,
      records |-> total]

InitTrim ==
  /\ pc = "collect"
  /\ \E n \in FillerCounts : \E profile \in Profiles :
       \E probe \in ProbeFreqs : \E reversed \in BOOLEAN :
         LET st == TrimStats(n, profile, probe, reversed)
         IN /\ token_order = st.order
            /\ token_counter = st.counter
            /\ token_buildings = st.buildings
            /\ per_building_counter = st.perbldg
            /\ token_numid_bigram = st.numid
            /\ num_records = st.records
  /\ candidates = "NONE"
  /\ bundle = "NONE"
  /\ vocabs = "NONE"
  /\ token = <<>>
  /\ category = "NONE"
  /\ AnnotIdle

NextTrim == Classify

SpecTrim == InitTrim /\ [][NextTrim]_vars

-----------------------------------------------------------------------------
(* Claims about extract_vocab, checked under SpecVocab                     *)

Classified == pc = "done"

Observed == DOMAIN token_counter

Freq(t) == token_counter[t]
Support(t) == Cardinality(token_buildings[t])

EquipBucket == Toks(candidates.equip)
SubcompBucket == Toks(candidates.subcomp)
PointFuncBucket == Toks(candidates.pointfunc)

EquipVocab == Range(bundle.equip_vocab)
SubcompVocab == Range(bundle.subcomp_vocab)
PointFuncVocab == Range(bundle.point_func_vocab)
IoVocab == Range(bundle.io_type_vocab)
VendorVocab == Range(bundle.vendor_vocab)

PassesThresholds(t) == Freq(t) >= 10 /\ Support(t) >= 2

\* predicate k of the classification order holds of token t
ClassPredicate(k, t) ==
  CASE k = 1 -> t \in KNOWN_IO
    [] k = 2 -> t \in KNOWN_VENDOR_HINTS \/ (endswith(t, NET) /\ Len(t) <= 8)
    [] k = 3 -> likely_point_func(t, token_counter, token_buildings)
    [] k = 4 -> likely_subcomponent(t, token_counter, token_buildings)
    [] OTHER -> likely_equip(t, token_counter, token_buildings, token_numid_bigram)

ClassBucket(k) ==
  CASE k = 1 -> candidates.io_vocab
    [] k = 2 -> candidates.vendor_vocab
    [] k = 3 -> PointFuncBucket
    [] k = 4 -> SubcompBucket
    [] OTHER -> EquipBucket

\* C4: every observed token is in the bucket of the first predicate that holds
\* in the order IO_TYPE, VENDOR_TAG, POINT_FUNC, SUBCOMP, EQUIP, and in no bucket
\* when none holds; an earlier predicate keeps it out of every later bucket.
C4_ClassificationPriority ==
  Classified =>
    /\ \A k \in 1..5 : ClassBucket(k) \subseteq Observed
    /\ \A t \in Observed : \A k \in 1..5 :
         t \in ClassBucket(k) <=>
           (ClassPredicate(k, t) /\ \A j \in 1..(k - 1) : ~ClassPredicate(j, t))

TOK_STATIC == <<"S","T","A","T","I","C">>
TOK_AI == <<"A","I">>
TOK_MYNET == <<"M","Y","N","E","T">>
TOK_SAT == <<"S","A","T">>
TOK_CMD == <<"C","M","D">>
TOK_DPT == <<"D","P","T">>
TOK_SIEMENS == <<"S","I","E","M","E","N","S">>

\* STATIC (a SUBCOMP seed) is a POINT_FUNC candidate and MYNET a vendor tag,
\* although each also satisfies a later predicate; a token that satisfies none
\* is in no bucket
C4_Witness ==
  /\ Classified
  /\ TOK_STATIC \in PointFuncBucket /\ ClassPredicate(4, TOK_STATIC)
  /\ TOK_MYNET \in candidates.vendor_vocab /\ ClassPredicate(5, TOK_MYNET)
  /\ \E t \in Observed : \A k \in 1..5 : ~ClassPredicate(k, t) /\ t \notin ClassBucket(k)

\* C5: the five vocabularies of the returned bundle are pairwise disjoint.
C5_VocabulariesDisjoint ==
  Classified =>
    LET vs == <<EquipVocab, SubcompVocab, PointFuncVocab, IoVocab, VendorVocab>>
    IN \A i \in 1..5 : \A j \in (i + 1)..5 : vs[i] \cap vs[j] = {}

\* all five vocabularies are non-empty and some token satisfies two predicates
C5_Witness ==
  /\ Classified
  /\ EquipVocab # {} /\ SubcompVocab # {} /\ PointFuncVocab # {}
  /\ IoVocab # {} /\ VendorVocab # {}
  /\ \E t \in Observed : ClassPredicate(3, t) /\ ClassPredicate(4, t) /\ ClassPredicate(5, t)

\* C6 as stated: every observed seed token is in the final vocabulary of its
\* category, whatever its frequency and building support.
C6_SeedsAlwaysInVocabulary ==
  Classified =>
    \A t \in Observed :
      /\ t \in SEED_EQUIP => t \in EquipVocab
      /\ t \in SEED_SUBCOMP => t \in SubcompVocab
      /\ t \in SEED_POINT_FUNC => t \in PointFuncVocab

\* how the candidate loop routes a seed token that was seen f times in b buildings
SeedBucket(t, f, b) ==
  bucket_of(t, [x \in {t} |-> f], [x \in {t} |-> 1..b], <<>>)

\* every seed, below and above the global thresholds, goes to the bucket of its
\* category, except STATIC above the thresholds (it starts with the stem STAT)
SeedRouting ==
  \A f \in {1, MIN_GLOBAL_FREQ} : \A b \in {1, MIN_BUILDINGS} :
    /\ \A t \in SEED_EQUIP : SeedBucket(t, f, b) = "EQUIP"
    /\ \A t \in SEED_POINT_FUNC : SeedBucket(t, f, b) = "POINT_FUNC"
    /\ \A t \in SEED_SUBCOMP :
         SeedBucket(t, f, b) =
           IF t = TOK_STATIC /\ f >= MIN_GLOBAL_FREQ /\ b >= MIN_BUILDINGS
             THEN "POINT_FUNC" ELSE "SUBCOMP"

\* C6 amended: an observed seed token satisfies the candidate predicate of its
\* category whatever its frequency and support; it is in the final vocabulary of
\* that category exactly when no earlier rule takes it (STATIC is taken by the
\* POINT_FUNC rule once it passes the global thresholds) and it survives the
\* trimming: subcomp score >= 15, point-function score >= 5, top 150 equipment.
C6_SeedsAcceptedAsCandidates ==
  Classified =>
    /\ SeedRouting
    /\ \A t \in Observed :
         /\ t \in SEED_EQUIP =>
              /\ ClassPredicate(5, t)
              /\ t \in EquipBucket
              /\ (Len(candidates.equip) <= 150 => t \in EquipVocab)
         /\ t \in SEED_SUBCOMP =>
              /\ ClassPredicate(4, t)
              /\ t \in SubcompBucket <=> ~(t = TOK_STATIC /\ PassesThresholds(t))
              /\ t \in SubcompVocab <=>
                   (t \in SubcompBucket /\ Freq(t) + 2 * Support(t) >= 15)
         /\ t \in SEED_POINT_FUNC =>
              /\ ClassPredicate(3, t)
              /\ t \in PointFuncBucket
              /\ t \in PointFuncVocab <=> Freq(t) + Support(t) >= 5

\* the seed SAT seen once is a SUBCOMP candidate and is trimmed from the
\* vocabulary, while the seed AHU seen once is kept
C6_Witness ==
  /\ Classified
  /\ TOK_SAT \in Observed /\ Freq(TOK_SAT) = 1
  /\ TOK_SAT \in SubcompBucket /\ TOK_SAT \notin SubcompVocab
  /\ SEED_AHU \in EquipVocab /\ Freq(SEED_AHU) = 1

EveryTokenPassesThresholds == \A t \in Observed : PassesThresholds(t)

\* C7 as stated: when every token passes the global thresholds, every observed
\* I/O token, vendor hint and seed is in the vocabulary of its category.
C7_InductionAboveThresholds ==
  (Classified /\ EveryTokenPassesThresholds) =>
    \A t \in Observed :
      /\ t \in KNOWN_IO => t \in IoVocab
      /\ t \in KNOWN_VENDOR_HINTS => t \in VendorVocab
      /\ t \in SEED_EQUIP => t \in EquipVocab
      /\ t \in SEED_SUBCOMP => t \in SubcompVocab
      /\ t \in SEED_POINT_FUNC => t \in PointFuncVocab

\* C7 amended: when every token has frequency >= 10, at least 2 buildings and
\* frequency + 2 * buildings >= 15, and there are at most 150 EQUIP candidates,
\* every observed I/O token, vendor hint, equipment seed, point-function seed and
\* subcomponent seed other than STATIC is in the vocabulary of its category;
\* STATIC is then in point_func_vocab.
C7_InductionAboveScores ==
  (/\ Classified
   /\ EveryTokenPassesThresholds
   /\ \A t \in Observed : Freq(t) + 2 * Support(t) >= 15
   /\ Len(candidates.equip) <= 150) =>
    \A t \in Observed :
      /\ t \in KNOWN_IO => t \in IoVocab
      /\ t \in KNOWN_VENDOR_HINTS => t \in VendorVocab
      /\ t \in SEED_EQUIP => t \in EquipVocab
      /\ t \in SEED_SUBCOMP \ {TOK_STATIC} => t \in SubcompVocab
      /\ t = TOK_STATIC => t \in PointFuncVocab
      /\ t \in SEED_POINT_FUNC => t \in PointFuncVocab

\* the corpus of the test: one label, twelve repetitions, six in each of two
\* buildings
C7_Witness ==
  /\ Classified
  /\ EveryTokenPassesThresholds
  /\ Observed = Range(TokenizedInputs[L_TEST])
  /\ \A t \in Observed : Freq(t) = 12 /\ Support(t) = 2
  /\ \A b \in DOMAIN per_building_counter : per_building_counter[b][TOK_SAT] = 6
  /\ TOK_AI \in IoVocab /\ TOK_SIEMENS \in VendorVocab /\ SEED_AHU \in EquipVocab
  /\ TOK_SAT \in SubcompVocab /\ TOK_CMD \in PointFuncVocab

\* C8: subcomp_vocab is exactly the SUBCOMP candidates with frequency +
\* 2 * buildings >= 15, point_func_vocab exactly the POINT_FUNC candidates with
\* frequency + buildings >= 5, and io_type_vocab and vendor_vocab hold every
\* observed token that matches the IO_TYPE or VENDOR_TAG rule, at any frequency.
C8_TrimmingByScore ==
  Classified =>
    /\ SubcompVocab = {t \in SubcompBucket : Freq(t) + 2 * Support(t) >= 15}
    /\ PointFuncVocab = {t \in PointFuncBucket : Freq(t) + Support(t) >= 5}
    /\ IoVocab = {t \in Observed : ClassPredicate(1, t)}
    /\ VendorVocab = {t \in Observed : ClassPredicate(2, t)}

\* one SUBCOMP candidate at score 15 is kept and one below is trimmed, a
\* POINT_FUNC candidate is trimmed, and an I/O token seen once is kept
C8_Witness ==
  /\ Classified
  /\ \E t \in SubcompVocab : Freq(t) + 2 * Support(t) = 15
  /\ \E t \in SubcompBucket : Freq(t) + 2 * Support(t) < 15
  /\ \E t \in PointFuncBucket : Freq(t) + Support(t) < 5
  /\ \E t \in PointFuncVocab : Freq(t) + Support(t) >= 5
  /\ \E t \in IoVocab : Freq(t) = 1
  /\ \E t \in VendorVocab : Freq(t) = 1

-----------------------------------------------------------------------------
(* Claims about the equipment cap and key order, checked under SpecTrim    *)

EquipScore(t) == Freq(t) + 2 * Support(t) + 3 * CountOf(token_numid_bigram, t)

\* C9: equip_vocab never holds more than 150 tokens, holds no token twice, holds
\* only candidates, and is the whole candidate set when there are at most 150.
C9_EquipCap ==
  Classified =>
    /\ Len(bundle.equip_vocab) <= 150
    /\ Cardinality(EquipVocab) = Len(bundle.equip_vocab)
    /\ EquipVocab \subseteq EquipBucket
    /\ Cardinality(EquipBucket) <= 150 => EquipVocab = EquipBucket
    /\ Cardinality(EquipBucket) > 150 => Len(bundle.equip_vocab) = 150

\* more than 150 candidates, of which exactly 150 are kept, an observed seed
\* among the ones left out
C9_Witness ==
  /\ Classified
  /\ Cardinality(EquipBucket) > 150
  /\ Len(bundle.equip_vocab) = 150
  /\ SEED_AHU \in EquipBucket \ EquipVocab

\* the document extract_vocab returns for the same statistics maps when the
\* tokens were first seen in the order `order'
Rebuild(order) ==
  build_vocabs(collect_candidates(order, token_counter, token_buildings,
                                  token_numid_bigram),
               token_counter, per_building_counter)

NoTieAtCut ==
  \A t \in EquipVocab : \A u \in EquipBucket \ EquipVocab : EquipScore(t) # EquipScore(u)

-----------------------------------------------------------------------------
(* categories_to_bio and build_structured (label_point_tokens.py)          *)

\* None in a list of categories
None == "None"

\* the loop that forgets to remember the category it has just tagged
RECURSIVE bio_loop_no_prev_update(_, _, _, _)
bio_loop_no_prev_update(categories, k, tags, prev_cat) ==
  IF k > Len(categories) THEN tags
  ELSE LET cat == categories[k]
       IN IF cat = None \/ cat = "MISC"
            THEN bio_loop_no_prev_update(categories, k + 1, Append(tags, "O"), None)
            ELSE bio_loop_no_prev_update(categories, k + 1,
                   Append(tags, IF cat # prev_cat THEN "B-" \o cat ELSE "I-" \o cat),
                   prev_cat)

\* the loop that treats MISC as a category of its own
RECURSIVE bio_loop_misc_as_category(_, _, _, _)
bio_loop_misc_as_category(categories, k, tags, prev_cat) ==
  IF k > Len(categories) THEN tags
  ELSE LET cat == categories[k]
       IN IF cat = None
            THEN bio_loop_misc_as_category(categories, k + 1, Append(tags, "O"), None)
            ELSE bio_loop_misc_as_category(categories, k + 1,
                   Append(tags, IF cat # prev_cat THEN "B-" \o cat ELSE "I-" \o cat),
                   cat)

\* the loop that keeps prev_cat across an O
RECURSIVE bio_loop_no_reset(_, _, _, _)
bio_loop_no_reset(categories, k, tags, prev_cat) ==
  IF k > Len(categories) THEN tags
  ELSE LET cat == categories[k]
       IN IF cat = None \/ cat = "MISC"
            THEN bio_loop_no_reset(categories, k + 1, Append(tags, "O"), prev_cat)
            ELSE bio_loop_no_reset(categories, k + 1,
                   Append(tags, IF cat # prev_cat THEN "B-" \o cat ELSE "I-" \o cat),
                   cat)

\* the for loop of categories_to_bio from element k on, with the tags appended
\* so far and the value of prev_cat
RECURSIVE bio_loop(_, _, _, _)
bio_loop(categories, k, tags, prev_cat) ==
  IF k > Len(categories) THEN tags
  ELSE LET cat == categories[k]
       IN IF cat = None \/ cat = "MISC"
            THEN bio_loop(categories, k + 1, Append(tags, "O"), None)
            ELSE bio_loop(categories, k + 1,
                   Append(tags, IF cat # prev_cat THEN "B-" \o cat ELSE "I-" \o cat),
                   cat)

categories_to_bio(categories) == bio_loop(categories, 1, <<>>, None)

\* None where a str is expected: no sequence of characters equals it
Null == <<"None">>

\* the locals of build_structured before the loop
StructuredLocals ==
  [bldg |-> Null, floor |-> Null, zone_tokens |-> <<>>, equip |-> Null,
   equip_id |-> Null, subcomp |-> Null, point_func |-> Null, io_type |-> Null,
   vendor |-> Null]

\* the if-chain where a later EQUIP token overwrites the field
structured_step_equip_overwrites(st, tok, c) ==
  IF c = "BLDG" /\ st.bldg = Null THEN [st EXCEPT !.bldg = tok]
  ELSE IF c = "FLOOR" /\ st.floor = Null THEN [st EXCEPT !.floor = tok]
  ELSE IF c = "ZONE" THEN [st EXCEPT !.zone_tokens = Append(@, tok)]
  ELSE IF c = "EQUIP" THEN [st EXCEPT !.equip = tok]
  ELSE IF c = "EQUIP_ID" /\ st.equip_id = Null THEN [st EXCEPT !.equip_id = tok]
  ELSE IF c = "SUBCOMP" THEN [st EXCEPT !.subcomp = tok]
  ELSE IF c = "POINT_FUNC" THEN [st EXCEPT !.point_func = tok]
  ELSE IF c = "IO_TYPE" THEN [st EXCEPT !.io_type = tok]
  ELSE IF c = "VENDOR_TAG" THEN [st EXCEPT !.vendor = tok]
  ELSE st

\* the if-chain where the first VENDOR_TAG token is kept
structured_step_vendor_kept(st, tok, c) ==
  IF c = "BLDG" /\ st.bldg = Null THEN [st EXCEPT !.bldg = tok]
  ELSE IF c = "FLOOR" /\ st.floor = Null THEN [st EXCEPT !.floor = tok]
  ELSE IF c = "ZONE" THEN [st EXCEPT !.zone_tokens = Append(@, tok)]
  ELSE IF c = "EQUIP" /\ st.equip = Null THEN [st EXCEPT !.equip = tok]
  ELSE IF c = "EQUIP_ID" /\ st.equip_id = Null THEN [st EXCEPT !.equip_id = tok]
  ELSE IF c = "SUBCOMP" THEN [st EXCEPT !.subcomp = tok]
  ELSE IF c = "POINT_FUNC" THEN [st EXCEPT !.point_func = tok]
  ELSE IF c = "IO_TYPE" THEN [st EXCEPT !.io_type = tok]
  ELSE IF c = "VENDOR_TAG" /\ st.vendor = Null THEN [st EXCEPT !.vendor = tok]
  ELSE st

\* one iteration of the loop of build_structured: the if/elif chain
structured_step(st, tok, c) ==
  IF c = "BLDG" /\ st.bldg = Null THEN [st EXCEPT !.bldg = tok]
  ELSE IF c = "FLOOR" /\ st.floor = Null THEN [st EXCEPT !.floor = tok]
  ELSE IF c = "ZONE" THEN [st EXCEPT !.zone_tokens = Append(@, tok)]
  ELSE IF c = "EQUIP" /\ st.equip = Null THEN [st EXCEPT !.equip = tok]
  ELSE IF c = "EQUIP_ID" /\ st.equip_id = Null THEN [st EXCEPT !.equip_id = tok]
  ELSE IF c = "SUBCOMP" THEN [st EXCEPT !.subcomp = tok]
  ELSE IF c = "POINT_FUNC" THEN [st EXCEPT !.point_func = tok]
  ELSE IF c = "IO_TYPE" THEN [st EXCEPT !.io_type = tok]
  ELSE IF c = "VENDOR_TAG" THEN [st EXCEPT !.vendor = tok]
  ELSE st

\* len(list(zip(a, b)))
ZipLen(a, b) == IF Len(a) < Len(b) THEN Len(a) ELSE Len(b)

\* for tok, c in zip(tokens, cats), from pair k on
RECURSIVE structured_loop(_, _, _, _)
structured_loop(toks, categories, k, st) ==
  IF k > ZipLen(toks, categories) THEN st
  ELSE structured_loop(toks, categories, k + 1, structured_step(st, toks[k], categories[k]))

\* joining without the separator
RECURSIVE join_no_space(_)
join_no_space(parts) ==
  IF Len(parts) = 0 THEN <<>> ELSE Head(parts) \o join_no_space(Tail(parts))

\* " ".join(parts)
RECURSIVE join_space(_)
join_space(parts) ==
  IF Len(parts) = 0 THEN <<>>
  ELSE IF Len(parts) = 1 THEN Head(parts)
  ELSE Head(parts) \o <<" ">> \o join_space(Tail(parts))

build_structured(toks, categories) ==
  LET st == structured_loop(toks, categories, 1, StructuredLocals)
  IN [bldg |-> st.bldg,
      floor |-> st.floor,
      zone |-> IF st.zone_tokens # <<>> THEN join_space(st.zone_tokens) ELSE Null,
      equip |-> st.equip,
      equip_id |-> st.equip_id,
      subcomp |-> st.subcomp,
      point_func |-> st.point_func,
      io_type |-> st.io_type,
      vendor |-> st.vendor]

-----------------------------------------------------------------------------
(* categories_to_bio and build_structured on every short sequence          *)

MaxLen == 3

CategoryInputs == Categories \cup {None}

\* tokens that differ from position to position, and tokens that are all alike
DistinctTokens(n) == [i \in 1..n |-> <<"K", DigitChars[i + 1]>>]
AlikeTokens(n) == [i \in 1..n |-> <<"A", "H", "U">>]

InitSeq ==
  /\ pc = "seq"
  /\ token_order = <<>>
  /\ token_counter = NoStats
  /\ token_buildings = NoStats
  /\ token_numid_bigram = NoStats
  /\ per_building_counter = NoStats
  /\ num_records = 0
  /\ candidates = "NONE"
  /\ bundle = "NONE"
  /\ vocabs = "NONE"
  /\ token = <<>>
  /\ category = "NONE"
  /\ \E n \in 0..MaxLen :
       /\ cats \in [1..n -> CategoryInputs]
       /\ tokens \in {DistinctTokens(n), AlikeTokens(n)}
  /\ bio = <<>>
  /\ structured = "NONE"
  /\ vocab_file = "NONE"
  /\ input = <<>>
  /\ output = <<>>

\* bio_tags = categories_to_bio(token_labels)
CategoriesToBio ==
  /\ pc = "seq"
  /\ bio' = categories_to_bio(cats)
  /\ pc' = "tagged"
  /\ UNCHANGED <<collectVars, vocabVars, labelVars, tokens, cats, structured,
                 vocab_file, input, output>>

\* structured = build_structured(tokens, token_labels)
BuildStructured ==
  /\ pc = "tagged"
  /\ structured' = build_structured(tokens, cats)
  /\ pc' = "done"
  /\ UNCHANGED <<collectVars, vocabVars, labelVars, tokens, cats, bio,
                 vocab_file, input, output>>

NextSeq == CategoriesToBio \/ BuildStructured

SpecSeq == InitSeq /\ [][NextSeq]_vars

Tagged == pc \in {"tagged", "done"}

Untagged(c) == c = "MISC" \/ c = None

\* C11: a position whose category C is neither MISC nor None is tagged I-C when
\* it is not the first and the category before it is C, and B-C otherwise.
C11_BioRule ==
  Tagged =>
    /\ DOMAIN bio = DOMAIN cats
    /\ \A i \in DOMAIN cats :
         ~Untagged(cats[i]) =>
           bio[i] = IF i > 1 /\ cats[i - 1] = cats[i]
                      THEN "I-" \o cats[i] ELSE "B-" \o cats[i]

\* EQUIP, EQUIP, SUBCOMP is tagged B-EQUIP, I-EQUIP, B-SUBCOMP
C11_Witness ==
  /\ Tagged
  /\ cats = <<"EQUIP", "EQUIP", "SUBCOMP">>
  /\ bio = <<"B-EQUIP", "I-EQUIP", "B-SUBCOMP">>

\* C12: the tag list is as long as the category list and position i is O
\* exactly when the category at i is MISC or None, so that there are as many O
\* tags as MISC/None categories.
C12_OutsideIffMiscOrNone ==
  Tagged =>
    /\ Len(bio) = Len(cats)
    /\ \A i \in 1..Len(cats) : bio[i] = "O" <=> Untagged(cats[i])
    /\ Cardinality({i \in 1..Len(bio) : bio[i] = "O"})
         = Cardinality({i \in 1..Len(cats) : Untagged(cats[i])})

\* MISC, None and a category in one list
C12_Witness ==
  /\ Tagged
  /\ cats = <<"MISC", None, "EQUIP">>
  /\ bio = <<"O", "O", "B-EQUIP">>

IsInside(tag) == \E c \in Categories : tag = "I-" \o c

\* C13: no I- tag stands first or directly after an O, and every I-C tag
\* directly follows a B-C or I-C tag of the same C; two segments of one category
\* separated by a MISC/None position each start with B-C.
C13_OutsideBreaksRun ==
  Tagged =>
    /\ \A i \in 1..Len(bio) :
         IsInside(bio[i]) =>
           /\ i > 1
           /\ bio[i - 1] # "O"
           /\ \E c \in Categories :
                bio[i] = "I-" \o c /\ bio[i - 1] \in {"B-" \o c, "I-" \o c}
    /\ \A i \in 1..(Len(cats) - 2) :
         (~Untagged(cats[i]) /\ Untagged(cats[i + 1]) /\ cats[i + 2] = cats[i]) =>
           bio[i + 2] = "B-" \o cats[i]

\* ZONE, MISC or None, ZONE gives two runs
C13_Witness ==
  /\ Tagged
  /\ \E c \in {"MISC", None} : cats = <<"ZONE", c, "ZONE">>
  /\ bio = <<"B-ZONE", "O", "B-ZONE">>

-----------------------------------------------------------------------------
(* Claims about build_structured, checked under SpecSeq                    *)

Structured == pc = "done"

Positions(c) == {i \in 1..Len(cats) : cats[i] = c}

FirstPosition(c) == CHOOSE i \in Positions(c) : \A j \in Positions(c) : i <= j
LastPosition(c) == CHOOSE i \in Positions(c) : \A j \in Positions(c) : j <= i

\* C14: bldg, floor, equip and equip_id are the token of the first position of
\* category BLDG, FLOOR, EQUIP and EQUIP_ID; later tokens of the category do not
\* change the field.
C14_FirstWins ==
  Structured =>
    /\ Positions("BLDG") # {} => structured.bldg = tokens[FirstPosition("BLDG")]
    /\ Positions("FLOOR") # {} => structured.floor = tokens[FirstPosition("FLOOR")]
    /\ Positions("EQUIP") # {} => structured.equip = tokens[FirstPosition("EQUIP")]
    /\ Positions("EQUIP_ID") # {} =>
         structured.equip_id = tokens[FirstPosition("EQUIP_ID")]

\* two EQUIP positions with different tokens: the first one is the field
C14_Witness ==
  /\ Structured
  /\ \E i, j \in Positions("EQUIP") : i < j /\ tokens[i] # tokens[j]
  /\ structured.equip = tokens[FirstPosition("EQUIP")]
  /\ structured.equip # tokens[LastPosition("EQUIP")]

\* C15: subcomp, point_func, io_type and vendor are the token of the last
\* position of category SUBCOMP, POINT_FUNC, IO_TYPE and VENDOR_TAG.
C15_LastWins ==
  Structured =>
    /\ Positions("SUBCOMP") # {} => structured.subcomp = tokens[LastPosition("SUBCOMP")]
    /\ Positions("POINT_FUNC") # {} =>
         structured.point_func = tokens[LastPosition("POINT_FUNC")]
    /\ Positions("IO_TYPE") # {} => structured.io_type = tokens[LastPosition("IO_TYPE")]
    /\ Positions("VENDOR_TAG") # {} =>
         structured.vendor = tokens[LastPosition("VENDOR_TAG")]

\* two VENDOR_TAG positions with different tokens: the last one is the field
C15_Witness ==
  /\ Structured
  /\ \E i, j \in Positions("VENDOR_TAG") : i < j /\ tokens[i] # tokens[j]
  /\ structured.vendor = tokens[LastPosition("VENDOR_TAG")]
  /\ structured.vendor # tokens[FirstPosition("VENDOR_TAG")]

\* the ZONE tokens in their original order
ZoneTokens ==
  LET at == Ascending(Positions("ZONE"))
  IN [j \in 1..Len(at) |-> tokens[at[j]]]

\* where the j-th ZONE token starts in the joined string
RECURSIVE ZoneOffset(_)
ZoneOffset(j) == IF j <= 1 THEN 0 ELSE ZoneOffset(j - 1) + Len(ZoneTokens[j - 1]) + 1

FieldCategory ==
  [bldg |-> "BLDG", floor |-> "FLOOR", zone |-> "ZONE", equip |-> "EQUIP",
   equip_id |-> "EQUIP_ID", subcomp |-> "SUBCOMP", point_func |-> "POINT_FUNC",
   io_type |-> "IO_TYPE", vendor |-> "VENDOR_TAG"]

\* C16: zone is the ZONE tokens in their original order joined by single spaces,
\* and null when there is none; the record has exactly the nine fields, a field
\* is null when no token has its category, and a MISC token sets no field.
C16_ZoneAndUnsetFields ==
  Structured =>
    LET n == Len(ZoneTokens)
        z == structured.zone
    IN /\ DOMAIN structured = DOMAIN FieldCategory
       /\ \A f \in DOMAIN FieldCategory :
            structured[f] = Null <=> Positions(FieldCategory[f]) = {}
       /\ n > 0 =>
            /\ Len(z) = ZoneOffset(n) + Len(ZoneTokens[n])
            /\ \A j \in 1..n :
                 /\ SubSeq(z, ZoneOffset(j) + 1, ZoneOffset(j) + Len(ZoneTokens[j]))
                      = ZoneTokens[j]
                 /\ j > 1 => z[ZoneOffset(j)] = " "
       /\ (\A i \in 1..Len(cats) : Untagged(cats[i])) =>
            \A f \in DOMAIN FieldCategory : structured[f] = Null

\* two ZONE tokens around a MISC token are joined by one space; no other field
\* is set
C16_Witness ==
  /\ Structured
  /\ cats = <<"ZONE", "MISC", "ZONE">>
  /\ tokens = DistinctTokens(3)
  /\ structured.zone = <<"K", "1", " ", "K", "3">>
  /\ \A f \in DOMAIN FieldCategory \ {"zone"} : structured[f] = Null

-----------------------------------------------------------------------------
(* extract_vocab reading a given file (generate_bms_vocab.py, lines 339-366) *)

\* "Ahu-01.AHU_sat": a token twice in one label, in two cases, once before digits
L_TWICE == <<"A","h","u","-","0","1",".","A","H","U","_","s","a","t">>
\* "SAT_12_7": digits before digits
L_DIGITS == <<"S","A","T","_","1","2","_","7">>

FileLabels == {L_TWICE, L_DIGITS, L_SEPS}

FileTokenized == [lbl \in FileLabels |-> tokenize(lbl)]

\* a building id, and a record without the field
FileBuildingIds == {"B1", "ABSENT"}

FileRecords == [point_label : FileLabels, building_id : FileBuildingIds]

RECURSIVE FilesUpTo(_)
FilesUpTo(n) ==
  IF n = 0 THEN {<<>>}
  ELSE LET shorter == FilesUpTo(n - 1)
       IN shorter \cup {Append(f, r) : f \in {x \in shorter : Len(x) = n - 1},
                                       r \in FileRecords}

InitCollect ==
  /\ pc = "collect"
  /\ token_order = <<>>
  /\ token_counter = NoStats
  /\ token_buildings = NoStats
  /\ token_numid_bigram = NoStats
  /\ per_building_counter = NoStats
  /\ num_records = 0
  /\ candidates = "NONE"
  /\ bundle = "NONE"
  /\ vocabs = "NONE"
  /\ token = <<>>
  /\ category = "NONE"
  /\ tokens = <<>>
  /\ cats = <<>>
  /\ bio = <<>>
  /\ structured = "NONE"
  /\ vocab_file = "NONE"
  /\ input \in FilesUpTo(MaxRecords)
  /\ output = <<>>

\* one iteration of "for line in f" on the next line of the file
ReadLine ==
  /\ pc = "collect"
  /\ num_records < Len(input)
  /\ LET obj == input[num_records + 1]
     IN UpdateStatistics(FileTokenized[obj.point_label], building_of(obj))
  /\ num_records' = num_records + 1
  /\ UNCHANGED <<pc, vocabVars, labelVars, annotVars>>

\* the file is exhausted: the rest of extract_vocab
EndOfFile ==
  /\ num_records = Len(input)
  /\ Classify

NextCollect == ReadLine \/ EndOfFile

SpecCollect == InitCollect /\ [][NextCollect]_vars

\* the statistics maps extract_vocab has after reading the records recs
RECURSIVE statistics_of(_, _)
statistics_of(recs, k) ==
  IF k = 0 THEN [counter |-> NoStats, buildings |-> NoStats, numid |-> NoStats]
  ELSE LET before == statistics_of(recs, k - 1)
           toks == FileTokenized[recs[k].point_label]
           bldg == building_of(recs[k])
       IN IF toks = <<>> THEN before
          ELSE [counter |-> CounterUpdate(before.counter, UpperAll(toks)),
                buildings |-> BuildingsUpdate(before.buildings, UpperAll(toks), bldg),
                numid |-> BigramUpdate(before.numid, toks)]

-----------------------------------------------------------------------------
(* Claims about the statistics loop, checked under SpecCollect             *)

TokensOfLine(r) == FileTokenized[input[r].point_label]

\* the token occurrences <<line, position>> of the lines read so far
Occurrence ==
  UNION {{<<r, i>> : i \in 1..Len(TokensOfLine(r))} : r \in 1..num_records}

UpperAt(o) == upper(TokensOfLine(o[1])[o[2]])

OccurrencesOf(u) == {o \in Occurrence : UpperAt(o) = u}

UpperTokens == {UpperAt(o) : o \in Occurrence}

OnlyDecimalDigits(t) == Len(t) > 0 /\ \A i \in 1..Len(t) : t[i] \in Range(DigitChars)

\* the occurrences of u directly followed, in the same line, by an all-digit token
SuccessionsOf(u) ==
  {o \in OccurrencesOf(u) :
     /\ o[2] < Len(TokensOfLine(o[1]))
     /\ OnlyDecimalDigits(TokensOfLine(o[1])[o[2] + 1])}

\* C17: after any number of records, for every upper-cased token the frequency
\* is its number of occurrences over all records read, the building support is
\* the set of buildings of the records that contain it, and the
\* numeric-succession count is the number of adjacent pairs whose first token
\* upper-cases to it and whose second token is all decimal digits.
C17_StatisticsCollected ==
  /\ DOMAIN token_counter = UpperTokens
  /\ DOMAIN token_buildings = UpperTokens
  /\ DOMAIN token_numid_bigram = {u \in UpperTokens : SuccessionsOf(u) # {}}
  /\ \A u \in UpperTokens :
       /\ token_counter[u] = Cardinality(OccurrencesOf(u))
       /\ token_buildings[u] = {building_of(input[o[1]]) : o \in OccurrencesOf(u)}
       /\ CountOf(token_numid_bigram, u) = Cardinality(SuccessionsOf(u))

\* AHU read four times in two records of two buildings, twice before digits
C17_Witness ==
  /\ num_records = 3
  /\ SEED_AHU \in DOMAIN token_counter
  /\ token_counter[SEED_AHU] = 4
  /\ Cardinality(token_buildings[SEED_AHU]) = 2
  /\ token_numid_bigram[SEED_AHU] = 2
  /\ <<"1", "2">> \in DOMAIN token_numid_bigram

NumShards == 2

\* the merge step: frequencies and numeric-succession counts are summed,
\* building-support sets are united
MergeStatistics(a, b) ==
  [counter |-> [t \in DOMAIN a.counter \cup DOMAIN b.counter |->
                  CountOf(a.counter, t) + CountOf(b.counter, t)],
   buildings |-> [t \in DOMAIN a.buildings \cup DOMAIN b.buildings |->
                    (IF t \in DOMAIN a.buildings THEN a.buildings[t] ELSE {})
                      \cup (IF t \in DOMAIN b.buildings THEN b.buildings[t] ELSE {})],
   numid |-> [t \in DOMAIN a.numid \cup DOMAIN b.numid |->
                CountOf(a.numid, t) + CountOf(b.numid, t)]]

\* the lines of the file at the positions R, in their order: one partition
Shard(R) ==
  LET at == Ascending(R)
  IN [j \in 1..Len(at) |-> input[at[j]]]

\* the statistics of every possible partition of the file
PartitionStatistics ==
  Tabulate([R \in SUBSET (1..Len(input)) |-> statistics_of(Shard(R), Cardinality(R))])

\* the statistics of the partition that the assignment a numbers s
ShardStatistics(parts, a, s) == parts[{r \in 1..Len(input) : a[r] = s}]

RECURSIVE MergedUpTo(_, _, _)
MergedUpTo(parts, a, s) ==
  IF s = 1 THEN ShardStatistics(parts, a, 1)
  ELSE MergeStatistics(MergedUpTo(parts, a, s - 1), ShardStatistics(parts, a, s))

Splits == [1..Len(input) -> 1..NumShards]

\* C18: for every split of the file into partitions, in every order of the
\* partitions, the statistics of the partitions merged are the three statistics
\* maps of the single pass over the whole file.
C18_ShardedEqualsSinglePass ==
  (pc = "done" /\ num_records = Len(input)) =>
    LET parts == PartitionStatistics
    IN \A a \in Splits :
         LET merged == MergedUpTo(parts, a, NumShards)
         IN /\ merged.counter = token_counter
            /\ merged.buildings = token_buildings
            /\ merged.numid = token_numid_bigram

\* a file of three lines with AHU in lines of different buildings, split so that
\* each partition has one of them
C18_Witness ==
  /\ pc = "done"
  /\ num_records = Len(input)
  /\ Len(input) = 3
  /\ SEED_AHU \in DOMAIN token_buildings
  /\ Cardinality(token_buildings[SEED_AHU]) = 2
  /\ LET parts == PartitionStatistics
     IN \E a \in Splits :
          /\ \A s \in 1..NumShards :
               SEED_AHU \in DOMAIN ShardStatistics(parts, a, s).counter
          /\ MergedUpTo(parts, a, NumShards).counter[SEED_AHU] = token_counter[SEED_AHU]
          /\ ShardStatistics(parts, a, 1).buildings[SEED_AHU] # token_buildings[SEED_AHU]

-----------------------------------------------------------------------------
(* annotate_record and main (label_point_tokens.py, lines 310-363)         *)

weak_label_tokens(toks, vs) == [i \in 1..Len(toks) |-> label_token(toks[i], vs)]

\* raw_record.get(key)
GetField(raw_record, key) == IF key \in DOMAIN raw_record THEN raw_record[key] ELSE None

\* annotate_record with the default building of extract_vocab
annotate_record_unknown_building(raw_record, vs) ==
  LET point_label == raw_record["point_label"]
      toks == tokenize(point_label)
      token_labels == weak_label_tokens(toks, vs)
  IN [point_label |-> point_label,
      tokens |-> toks,
      token_labels |-> token_labels,
      bio_tags |-> categories_to_bio(token_labels),
      building_id |-> IF "building_id" \in DOMAIN raw_record
                        THEN raw_record["building_id"] ELSE "unknown",
      source_file |-> GetField(raw_record, "source_file"),
      point_label_col |-> GetField(raw_record, "point_label_col"),
      label_source |-> "rule",
      structured |-> build_structured(toks, token_labels)]

annotate_record(raw_record, vs) ==
  LET point_label == raw_record["point_label"]
      toks == tokenize(point_label)
      token_labels == weak_label_tokens(toks, vs)
  IN [point_label |-> point_label,
      tokens |-> toks,
      token_labels |-> token_labels,
      bio_tags |-> categories_to_bio(token_labels),
      building_id |-> GetField(raw_record, "building_id"),
      source_file |-> GetField(raw_record, "source_file"),
      point_label_col |-> GetField(raw_record, "point_label_col"),
      label_source |-> "rule",
      structured |-> build_structured(toks, token_labels)]

\* a complete vocabulary document
BundleComplete ==
  [equip_vocab |-> <<SEED_AHU>>,
   subcomp_vocab |-> << <<"S", "A", "T">> >>,
   point_func_vocab |-> << <<"C", "M", "D">> >>,
   io_type_vocab |-> << <<"A", "I">> >>,
   vendor_vocab |-> << <<"S", "I", "E", "M", "E", "N", "S">> >>]

VocabKeys == DOMAIN BundleComplete

Without(data, key) == [k \in DOMAIN data \ {key} |-> data[k]]

\* bms_vocabs.json: no such file, not JSON, a JSON list, or a JSON object that is
\* complete, lacks one list, lacks all of them, or has null for a list (the keys
\* in nulls)
VocabFileInputs ==
  {[state |-> "absent"], [state |-> "invalid_json"], [state |-> "not_object"]}
    \cup {[state |-> "object", data |-> d, nulls |-> {}] :
            d \in {BundleComplete, Without(BundleComplete, "equip_vocab"),
                   Without(BundleComplete, "vendor_vocab"), <<>>}}
    \cup {[state |-> "object", data |-> Without(BundleComplete, "subcomp_vocab"),
           nulls |-> {"subcomp_vocab"}]}

\* open() or json.load() raises, data.get does not exist, or set(None) raises
LoadRaises(file) ==
  \/ file.state # "object"
  \/ file.nulls \cap VocabKeys # {}

\* "AHU-3 sat_AI": vocabulary words and an equipment number
L_POINT == <<"A","H","U","-","3"," ","s","a","t","_","A","I">>

\* the lines of all_points.jsonl: records with and without the optional fields,
\* a record without point_label, and a blank line
LineInputs ==
  {[point_label |-> L_POINT, building_id |-> "B1", source_file |-> "a.csv",
    point_label_col |-> "name"],
   [point_label |-> L_TWICE],
   [point_label |-> L_SEPS, building_id |-> "B2"],
   [building_id |-> "B1"],
   [blank |-> TRUE]}

RECURSIVE LinesUpTo(_)
LinesUpTo(n) ==
  IF n = 0 THEN {<<>>}
  ELSE LET shorter == LinesUpTo(n - 1)
       IN shorter \cup {Append(f, r) : f \in {x \in shorter : Len(x) = n - 1},
                                       r \in LineInputs}

InitMain ==
  /\ pc = "start"
  /\ token_order = <<>>
  /\ token_counter = NoStats
  /\ token_buildings = NoStats
  /\ token_numid_bigram = NoStats
  /\ per_building_counter = NoStats
  /\ num_records = 0
  /\ candidates = "NONE"
  /\ bundle = "NONE"
  /\ vocabs = "NONE"
  /\ token = <<>>
  /\ category = "NONE"
  /\ tokens = <<>>
  /\ cats = <<>>
  /\ bio = <<>>
  /\ structured = "NONE"
  /\ vocab_file \in VocabFileInputs
  /\ input \in LinesUpTo(MaxRecords)
  /\ output = <<>>

\* vocabs = load_vocabs(str(VOCABS)): an exception ends main
LoadVocabs ==
  /\ pc = "start"
  /\ IF LoadRaises(vocab_file)
       THEN pc' = "failed" /\ UNCHANGED vocabs
       ELSE pc' = "annotate" /\ vocabs' = load_vocabs(vocab_file.data)
  /\ UNCHANGED <<collectVars, vocabVars, token, category, annotVars>>

\* one iteration that writes the new record before those already written
AnnotateLine_prepend ==
  /\ pc = "annotate"
  /\ num_records < Len(input)
  /\ LET line == input[num_records + 1]
     IN IF "blank" \in DOMAIN line
          THEN UNCHANGED <<pc, output>>
          ELSE IF "point_label" \notin DOMAIN line
            THEN pc' = "failed" /\ UNCHANGED output
            ELSE /\ output' = <<annotate_record(line, vocabs)>> \o output
                 /\ UNCHANGED pc
  /\ num_records' = num_records + 1
  /\ UNCHANGED <<token_order, token_counter, token_buildings, token_numid_bigram,
                 per_building_counter, vocabVars, labelVars, tokens, cats, bio,
                 structured, vocab_file, input>>

\* one iteration of "for line in fin"; num_records is the number of lines read
AnnotateLine ==
  /\ pc = "annotate"
  /\ num_records < Len(input)
  /\ LET line == input[num_records + 1]
     IN IF "blank" \in DOMAIN line
          THEN UNCHANGED <<pc, output>>
          ELSE IF "point_label" \notin DOMAIN line
            THEN pc' = "failed" /\ UNCHANGED output
            ELSE /\ output' = Append(output, annotate_record(line, vocabs))
                 /\ UNCHANGED pc
  /\ num_records' = num_records + 1
  /\ UNCHANGED <<token_order, token_counter, token_buildings, token_numid_bigram,
                 per_building_counter, vocabVars, labelVars, tokens, cats, bio,
                 structured, vocab_file, input>>

\* the input is exhausted: main prints its summary and returns
Finish ==
  /\ pc = "annotate"
  /\ num_records = Len(input)
  /\ pc' = "done"
  /\ UNCHANGED <<collectVars, vocabVars, labelVars, annotVars>>

NextMain == LoadVocabs \/ AnnotateLine \/ Finish

SpecMain == InitMain /\ [][NextMain]_vars

-----------------------------------------------------------------------------
(* Claims about the labeler's batch, checked under SpecMain                *)

\* the document exists, is a JSON object and has the five vocabulary lists
BundleWellFormed ==
  /\ vocab_file.state = "object"
  /\ vocab_file.nulls = {}
  /\ VocabKeys \subseteq DOMAIN vocab_file.data

\* C19: when the vocabulary document is absent or malformed (for example it
\* lacks one of the five lists), loading fails and with it the batch: no record
\* is annotated.
C19_BadBundleIsFatal ==
  ~BundleWellFormed => (pc \in {"start", "failed"} /\ output = <<>>)

\* the lines read so far that are not blank, in their order
RecordsRead ==
  LET at == Ascending({r \in 1..num_records : "blank" \notin DOMAIN input[r]})
  IN [k \in 1..Len(at) |-> input[at[k]]]

Echoed(raw, key) == IF key \in DOMAIN raw THEN raw[key] ELSE None

\* C20: the k-th annotated record belongs to the k-th record of the input; its
\* tokens are tokenize(point_label), token_labels and bio_tags have the length
\* of tokens, token_labels[i] is label_token(tokens[i]), bio_tags is
\* categories_to_bio(token_labels), point_label, building_id, source_file and
\* point_label_col are the values of the input record (None for a field it does
\* not have), and label_source is "rule".
C20_AnnotatedRecordShape ==
  /\ Len(output) <= Len(RecordsRead)
  /\ pc # "failed" => Len(output) = Len(RecordsRead)
  /\ \A k \in 1..Len(output) :
       LET raw == RecordsRead[k]
           a == output[k]
       IN /\ a.point_label = raw.point_label
          /\ a.tokens = tokenize(raw.point_label)
          /\ Len(a.token_labels) = Len(a.tokens)
          /\ Len(a.bio_tags) = Len(a.tokens)
          /\ \A i \in 1..Len(a.tokens) :
               a.token_labels[i] = label_token(a.tokens[i], vocabs)
          /\ a.bio_tags = categories_to_bio(a.token_labels)
          /\ a.building_id = Echoed(raw, "building_id")
          /\ a.source_file = Echoed(raw, "source_file")
          /\ a.point_label_col = Echoed(raw, "point_label_col")
          /\ a.label_source = "rule"

\* "AHU-3 sat_AI" annotated with the complete vocabularies, after a record
\* without building_id
C20_Witness ==
  /\ pc = "done"
  /\ Len(output) = 2
  /\ output[1].building_id = None
  /\ output[2].point_label = L_POINT
  /\ output[2].tokens = <<SEED_AHU, <<"3">>, <<"s", "a", "t">>, <<"A", "I">> >>
  /\ output[2].token_labels = <<"EQUIP", "EQUIP_ID", "SUBCOMP", "IO_TYPE">>
  /\ output[2].bio_tags = <<"B-EQUIP", "B-EQUIP_ID", "B-SUBCOMP", "B-IO_TYPE">>
  /\ output[2].building_id = "B1"

\* the batch has loaded its vocabularies and met no record without point_label
BatchRunning == pc \in {"annotate", "done"}

\* C21: while the batch runs, as many records are written as non-blank lines
\* were read, and the k-th record written is the annotation of the k-th
\* non-blank line under the vocabularies of the document alone, whatever lines
\* were annotated before it. A record without point_label ends the batch; what
\* was written before it stays as it was.
C21_OnePerRecordInOrder ==
  /\ BatchRunning => Len(output) = Len(RecordsRead)
  /\ output # <<>> =>
       /\ vocabs = load_vocabs(vocab_file.data)
       /\ Len(output) <= Len(RecordsRead)
       /\ \A k \in 1..Len(output) :
            output[k] = annotate_record(RecordsRead[k], load_vocabs(vocab_file.data))

\* a blank line between two different records: two records are written, in the
\* order of the input
C21_Witness ==
  /\ pc = "done"
  /\ Len(input) = 3
  /\ Len(output) = 2
  /\ "blank" \in DOMAIN input[2]
  /\ output[1].point_label = L_TWICE
  /\ output[2].point_label = L_POINT
  /\ output[1].tokens # output[2].tokens

-----------------------------------------------------------------------------
(* One label: tokenize alone, and annotate_record with a vocabulary bundle *)

MaxLabel == 3

\* two letters, a digit, the six separators, a tab and a percent sign
LabelChars == {"A", "b", "7", " ", "_", ".", "-", "/", ":", "\t", "%"}

\* "RM1203E" (docstring of split_alpha_num)
L_RM == <<"R","M","1","2","0","3","E">>

\* "BLDG12_FL03_RM148A": the shapes named beside the patterns
L_HINTS ==
  <<"B","L","D","G","1","2","_","F","L","0","3","_","R","M","1","4","8","A">>

\* "Floor 2SE21 A10"
L_FLOOR ==
  <<"F","l","o","o","r"," ","2","S","E","2","1"," ","A","1","0">>

\* "ab\t77 7019E": whitespace that is no separator inside a fragment
L_TAB == <<"a","b","\t","7","7"," ","7","0","1","9","E">>

LabelStrings ==
  UNION {[1..n -> LabelChars] : n \in 0..MaxLabel}
    \cup {L_RM, L_HINTS, L_FLOOR, L_TAB, L_POINT, L_SEPS}

\* a bundle whose equip_vocab has FLOOR
BundleWithFloor ==
  [BundleComplete EXCEPT !.equip_vocab = <<SEED_AHU, <<"F","L","O","O","R">> >>]

BundleInputs == {BundleComplete, BundleWithFloor, <<>>}

InitTok ==
  /\ pc = "label"
  /\ token_order = <<>>
  /\ token_counter = NoStats
  /\ token_buildings = NoStats
  /\ token_numid_bigram = NoStats
  /\ per_building_counter = NoStats
  /\ num_records = 0
  /\ candidates = "NONE"
  /\ bundle = "NONE"
  /\ vocabs = "NONE"
  /\ token = <<>>
  /\ category = "NONE"
  /\ tokens = <<>>
  /\ cats = <<>>
  /\ bio = <<>>
  /\ structured = "NONE"
  /\ vocab_file = "NONE"
  /\ input \in LabelStrings
  /\ output = <<>>

\* tokens = tokenize(label)
Tokenize ==
  /\ pc = "label"
  /\ tokens' = tokenize(input)
  /\ pc' = "tokenized"
  /\ UNCHANGED <<collectVars, vocabVars, labelVars, cats, bio, structured,
                 vocab_file, input, output>>

\* annotated = annotate_record({"point_label": label}, vocabs)
AnnotateRecord ==
  /\ pc = "label"
  /\ \E data \in BundleInputs :
       /\ vocabs' = load_vocabs(data)
       /\ output' = <<annotate_record([point_label |-> input], vocabs')>>
  /\ pc' = "annotated"
  /\ UNCHANGED <<collectVars, vocabVars, token, category, tokens, cats, bio,
                 structured, vocab_file, input>>

NextTok == Tokenize \/ AnnotateRecord

SpecTok == InitTok /\ [][NextTok]_vars

-----------------------------------------------------------------------------
(* Claims about tokenize, checked under SpecTok                            *)

Tokenized == pc = "tokenized"

\* space, underscore, period, hyphen, slash, colon
SeparatorChars == {" ", "_", ".", "-", "/", ":"}

\* C22: for every label tokenize returns a sequence of tokens none of which is
\* empty or contains a separator character, and the sequence is empty when the
\* label is empty or made of separators only.
C22_TokensNonEmptySeparatorFree ==
  Tokenized =>
    /\ \A i \in 1..Len(tokens) :
         /\ tokens[i] # <<>>
         /\ Range(tokens[i]) \cap SeparatorChars = {}
    /\ Range(input) \subseteq SeparatorChars => tokens = <<>>

\* "_:/" is tokenized to nothing
C22_Witness ==
  /\ Tokenized
  /\ input = <<"_", ":", "/">>
  /\ tokens = <<>>

-----------------------------------------------------------------------------
(* Top-K trimming of the equipment candidates, checked under SpecTrim      *)

\* the place of every key in the order of first occurrence
FirstSeenAt ==
  Tabulate([t \in Range(token_order) |->
              CHOOSE i \in 1..Len(token_order) : token_order[i] = t])

\* C24: with more than 150 EQUIP candidates, equip_vocab has 150 of them, every
\* kept token has a score (frequency + 2*buildings + 3*numeric successions) at
\* least that of every discarded candidate, and of two candidates of equal
\* score on either side of the cut the kept one was seen first in the corpus.
C24_TopKByScoreTiesByFirstSeen ==
  (Classified /\ Cardinality(EquipBucket) > 150) =>
    LET seen == FirstSeenAt
        score == Tabulate([t \in EquipBucket |-> EquipScore(t)])
        kept == EquipVocab
        discarded == EquipBucket \ EquipVocab
    IN /\ Cardinality(kept) = 150
       /\ \A k \in kept : \A d \in discarded :
            /\ score[k] >= score[d]
            /\ score[k] = score[d] => seen[k] < seen[d]

\* more than 150 candidates and a tie of scores at the cut: the kept token was
\* seen before the discarded one
C24_Witness ==
  /\ Classified
  /\ Cardinality(EquipBucket) > 150
  /\ \E k \in EquipVocab : \E d \in EquipBucket \ EquipVocab :
       /\ EquipScore(k) = EquipScore(d)
       /\ FirstSeenAt[k] < FirstSeenAt[d]

-----------------------------------------------------------------------------
(* likely_equip on the statistics of one token                             *)

\* a seed, tokens of the accepted shape with 3 and 6 letters, a stopword, and
\* tokens that are lower case, mixed case, too short, too long, alphanumeric or
\* numeric
ProbeTokens ==
  {SEED_AHU, <<"X","Y","Z">>, <<"A","B","C","D","E","F">>, <<"F","L","O","W">>,
   <<"a","h","u">>, <<"X","y">>, <<"A">>, <<"A","B","C","D","E","F","G">>,
   <<"X","1">>, <<"1","2">>}

FrequencyInputs == {0, 1, MIN_GLOBAL_FREQ - 1, MIN_GLOBAL_FREQ}

BuildingNames == <<"B1", "B2", "B3">>

SupportInputs == {0, MIN_BUILDINGS - 1, MIN_BUILDINGS}

SuccessionInputs == {0, MIN_EQUIP_NUMID_BIGRAM - 1, MIN_EQUIP_NUMID_BIGRAM}

\* the statistics of token t seen f times in b buildings, n times before a number
ProbeCounter(t, f) == IF f = 0 THEN NoStats ELSE (t :> f)
ProbeBuildings(t, b) ==
  IF b = 0 THEN NoStats ELSE (t :> {BuildingNames[i] : i \in 1..b})
ProbeSuccessions(t, n) == IF n = 0 THEN NoStats ELSE (t :> n)

InitEquip ==
  /\ pc = "probe"
  /\ token \in ProbeTokens
  /\ token_order = <<>>
  /\ \E f \in FrequencyInputs : \E b \in SupportInputs : \E n \in SuccessionInputs :
       /\ b <= f
       /\ n <= f
       /\ (b = 0) <=> (f = 0)
       /\ token_counter = ProbeCounter(token, f)
       /\ token_buildings = ProbeBuildings(token, b)
       /\ token_numid_bigram = ProbeSuccessions(token, n)
  /\ per_building_counter = NoStats
  /\ num_records = 0
  /\ candidates = "NONE"
  /\ bundle = "NONE"
  /\ vocabs = "NONE"
  /\ category = "NONE"
  /\ AnnotIdle

\* likely_equip(t, token_counter, token_buildings, token_numid_bigram)
LikelyEquip ==
  /\ pc = "probe"
  /\ candidates' = [likely_equip |->
                      likely_equip(token, token_counter, token_buildings,
                                   token_numid_bigram)]
  /\ pc' = "decided"
  /\ UNCHANGED <<collectVars, bundle, labelVars, annotVars>>

NextEquip == LikelyEquip

SpecEquip == InitEquip /\ [][NextEquip]_vars

Decided == pc = "decided"

\* C23: likely_equip accepts a token exactly when it is not blacklisted and is
\* either an equipment seed seen at least once, or seen at least 10 times in at
\* least 2 buildings, alphabetic, upper case, 2 to 6 characters long and no
\* equipment stopword; the count of numeric successions changes nothing.
C23_EquipCandidateRule ==
  Decided =>
    LET frequency == CountOf(token_counter, token)
        support == SupportOf(token_buildings, token)
        accepted ==
          /\ token \notin EQUIP_BLACKLIST
          /\ \/ token \in SEED_EQUIP /\ frequency >= 1
             \/ /\ frequency >= 10
                /\ support >= 2
                /\ isalpha(token)
                /\ isupper(token)
                /\ Len(token) \in 2..6
                /\ token \notin EQUIP_STOPWORDS
    IN /\ candidates.likely_equip = accepted
       /\ \A n \in SuccessionInputs :
            likely_equip(token, token_counter, token_buildings,
                         ProbeSuccessions(token, n)) = accepted

\* XYZ, seen 10 times in 2 buildings and never before a number, is accepted
C23_Witness ==
  /\ Decided
  /\ token = <<"X","Y","Z">>
  /\ CountOf(token_counter, token) = 10
  /\ SupportOf(token_buildings, token) = 2
  /\ CountOf(token_numid_bigram, token) = 0
  /\ candidates.likely_equip

\* the characters tokenize removes: the separators, and whitespace
DroppedChars == SeparatorChars \cup WhitespaceChars

\* the positions of the label whose characters are kept
KeptPositions == Ascending({i \in 1..Len(input) : input[i] \notin DroppedChars})

RECURSIVE Flatten(_, _)
Flatten(seqs, k) == IF k > Len(seqs) THEN <<>> ELSE seqs[k] \o Flatten(seqs, k + 1)

\* the tokens are the kept characters of the label, in order and unchanged
TokensSpellLabel ==
  Flatten(tokens, 1) = [p \in 1..Len(KeptPositions) |-> input[KeptPositions[p]]]

RECURSIVE Offset(_)
Offset(i) == IF i <= 1 THEN 0 ELSE Offset(i - 1) + Len(tokens[i - 1])

\* where token i starts and ends in the label
StartOf(i) == KeptPositions[Offset(i) + 1]
EndOf(i) == KeptPositions[Offset(i) + Len(tokens[i])]

LetterRun(t) == isalpha(t)
DigitRun(t) == isdigit(t)
OtherCharacter(t) ==
  /\ Len(t) = 1
  /\ t[1] \notin Upper_AZ \cup Lower_az \cup Digit_09 \cup SeparatorChars

SameKind(t, c) ==
  \/ LetterRun(t) /\ c \in Upper_AZ \cup Lower_az
  \/ DigitRun(t) /\ c \in Digit_09

\* token i is a whole run: it is contiguous in the label and the characters
\* beside it are of another kind
MaximalRun(i) ==
  /\ EndOf(i) - StartOf(i) = Len(tokens[i]) - 1
  /\ StartOf(i) > 1 => ~SameKind(tokens[i], input[StartOf(i) - 1])
  /\ EndOf(i) < Len(input) => ~SameKind(tokens[i], input[EndOf(i) + 1])

\* tokens i and i + 1 come from one separator-delimited fragment
SameFragment(i) ==
  \A p \in (EndOf(i) + 1)..(StartOf(i + 1) - 1) : input[p] \notin SeparatorChars

BothRunsOfOneKind(i) ==
  \/ LetterRun(tokens[i]) /\ LetterRun(tokens[i + 1])
  \/ DigitRun(tokens[i]) /\ DigitRun(tokens[i + 1])

TokenShapes ==
  /\ TokensSpellLabel
  /\ \A i \in 1..Len(tokens) :
       \/ LetterRun(tokens[i]) /\ MaximalRun(i)
       \/ DigitRun(tokens[i]) /\ MaximalRun(i)
       \/ OtherCharacter(tokens[i])

\* C25 as stated: every token is a maximal run of letters, a maximal run of
\* digits or one other character, tokens keep case and order, and no two
\* adjacent tokens of one fragment are both letter runs or both digit runs.
C25_LetterDigitSplitting ==
  Tokenized =>
    /\ TokenShapes
    /\ \A i \in 1..(Len(tokens) - 1) : SameFragment(i) => ~BothRunsOfOneKind(i)

\* C25 amended: every token is a maximal run of letters, a maximal run of
\* digits or one other character that is not whitespace, tokens keep case and
\* order, and two adjacent tokens of one fragment are both letter runs or both
\* digit runs only where whitespace that is no separator (a tab, a newline)
\* stood between them and was dropped.
C25_SplittingUpToWhitespace ==
  Tokenized =>
    /\ TokenShapes
    /\ \A i \in 1..Len(tokens) : Range(tokens[i]) \cap WhitespaceChars = {}
    /\ \A i \in 1..(Len(tokens) - 1) :
         (SameFragment(i) /\ BothRunsOfOneKind(i)) =>
           /\ StartOf(i + 1) > EndOf(i) + 1
           /\ \A p \in (EndOf(i) + 1)..(StartOf(i + 1) - 1) :
                input[p] \in WhitespaceChars

\* "A\tb" gives A, b: two letter runs from one fragment and no token for the tab
C25_Witness ==
  /\ Tokenized
  /\ input = <<"A", "\t", "b">>
  /\ tokens = << <<"A">>, <<"b">> >>

\* C30: the tokens of a label, concatenated, are the label without its
\* separator and whitespace characters, and every token is tokenized to itself
\* alone.
C30_OnlySeparatorsLost ==
  Tokenized =>
    /\ Flatten(tokens, 1) = SelectSeq(input, LAMBDA c : c \notin DroppedChars)
    /\ \A i \in 1..Len(tokens) : tokenize(tokens[i]) = <<tokens[i]>>

\* "RM1203E" gives RM, 1203, E
C30_Witness ==
  /\ Tokenized
  /\ input = L_RM
  /\ tokens = << <<"R","M">>, <<"1","2","0","3">>, <<"E">> >>

-----------------------------------------------------------------------------
(* Patterns after tokenization, checked under SpecTok                      *)

Annotated == pc = "annotated"

-----------------------------------------------------------------------------
(* The bundle of extract_vocab read by the labeler, checked under SpecVocab *)

LowerCase(s) == [i \in 1..Len(s) |-> LowerOf[s[i]]]

\* the first letter as it is, the others in lower case
TitleCase(s) == [i \in 1..Len(s) |-> IF i = 1 THEN s[i] ELSE LowerOf[s[i]]]

\* spellings of a vocabulary entry in other letter cases
Spellings(t) == {t, LowerCase(t), TitleCase(t)}

\* C27: with the bundle of extract_vocab loaded by load_vocabs, label_token
\* gives category X to every spelling of every entry of vocabulary X.
C27_LabelerAgreesWithClassifier ==
  Classified =>
    LET vs == load_vocabs(bundle)
    IN \A X \in VocabNames : \A t \in vs[X] : \A s \in Spellings(t) :
         label_token(s, vs) = X

\* MYNET is a vendor tag although it has the shape of an equipment token, and
\* "MyNet" and "siemens" are labelled VENDOR_TAG, "ai" IO_TYPE, "Ahu" EQUIP
C27_Witness ==
  /\ Classified
  /\ TOK_MYNET \in VendorVocab /\ ClassPredicate(5, TOK_MYNET)
  /\ TOK_AI \in IoVocab
  /\ SEED_AHU \in EquipVocab
  /\ LET vs == load_vocabs(bundle)
     IN /\ label_token(<<"M","y","N","e","t">>, vs) = "VENDOR_TAG"
        /\ label_token(LowerCase(TOK_SIEMENS), vs) = "VENDOR_TAG"
        /\ label_token(LowerCase(TOK_AI), vs) = "IO_TYPE"
        /\ label_token(TitleCase(SEED_AHU), vs) = "EQUIP"

AnyVocab == EquipVocab \cup SubcompVocab \cup PointFuncVocab \cup IoVocab \cup VendorVocab

\* the vocabularies filled by induction, each with the seeds of its category
InducedVocab ==
  <<[entries |-> EquipVocab, seeds |-> SEED_EQUIP],
    [entries |-> SubcompVocab, seeds |-> SEED_SUBCOMP],
    [entries |-> PointFuncVocab, seeds |-> SEED_POINT_FUNC]>>

\* C28: every entry of a vocabulary is a key of the bundle's frequency table
\* with a count of at least 1; an entry of equip_vocab, subcomp_vocab or
\* point_func_vocab that is no seed of that category was seen at least 10 times
\* in at least 2 buildings; no entry is made of digits.
C28_EntriesJustifiedByStatistics ==
  Classified =>
    /\ \A t \in AnyVocab :
         /\ t \in DOMAIN bundle.frequency
         /\ bundle.frequency[t] >= 1
         /\ ~isdigit(t)
    /\ \A k \in 1..Len(InducedVocab) :
         \A t \in InducedVocab[k].entries \ InducedVocab[k].seeds :
           bundle.frequency[t] >= 10 /\ Support(t) >= 2

\* a number seen 10 times in 2 buildings is in no vocabulary, and STATIC, no
\* point-function seed, is in point_func_vocab
C28_Witness ==
  /\ Classified
  /\ \E t \in Observed : isdigit(t) /\ PassesThresholds(t) /\ t \notin AnyVocab
  /\ TOK_STATIC \in PointFuncVocab \ SEED_POINT_FUNC

-----------------------------------------------------------------------------
(* Invariants of the statistics, checked under SpecCollect                 *)

RECURSIVE SumOver(_, _)
SumOver(counter, keys) ==
  IF keys = {} THEN 0
  ELSE LET t == CHOOSE x \in keys : TRUE
       IN counter[t] + SumOver(counter, keys \ {t})

\* the lines read so far whose label has at least one token
ContributingLines == {r \in 1..num_records : TokensOfLine(r) # <<>>}

ContributingBuildings == {building_of(input[r]) : r \in ContributingLines}

\* the statistics of the contributing lines alone
WithoutEmptyLines ==
  LET at == Ascending(ContributingLines)
      kept == [k \in 1..Len(at) |-> input[at[k]]]
  IN statistics_of(kept, Len(kept))

\* C29: after any number of records, every key of the frequency table has a
\* building support between 1 and its frequency and a numeric-succession count
\* of at most its frequency; the frequencies add up to the number of tokens
\* read; the records without tokens have changed nothing, so the per-building
\* table has the buildings of the other records only; and the returned
\* stats.num_tokens is the number of keys of the frequency table and
\* stats.num_buildings the number of those buildings.
C29_StatisticsInvariants ==
  /\ \A t \in DOMAIN token_counter :
       /\ 1 <= SupportOf(token_buildings, t)
       /\ SupportOf(token_buildings, t) <= token_counter[t]
       /\ CountOf(token_numid_bigram, t) <= token_counter[t]
  /\ SumOver(token_counter, DOMAIN token_counter) = Cardinality(Occurrence)
  /\ LET st == WithoutEmptyLines
     IN /\ token_counter = st.counter
        /\ token_buildings = st.buildings
        /\ token_numid_bigram = st.numid
  /\ DOMAIN per_building_counter = ContributingBuildings
  /\ Classified =>
       /\ bundle.stats.num_tokens = Cardinality(DOMAIN bundle.frequency)
       /\ bundle.stats.num_buildings = Cardinality(ContributingBuildings)

\* a file of three records of two buildings, the one of building B1 without
\* tokens: num_buildings is 1
C29_Witness ==
  /\ Classified
  /\ Len(input) = 3
  /\ \E r \in 1..3 :
       /\ input[r].building_id = "B1"
       /\ TokensOfLine(r) = <<>>
       /\ \A q \in (1..3) \ {r} : input[q].building_id = "ABSENT"
  /\ Cardinality(ContributingLines) = 2
  /\ bundle.stats.num_buildings = 1
  /\ bundle.stats.num_tokens > 1

====
